---------------------------- MODULE Spec2Model ----------------------------
(***************************************************************************)
(* Multi-source fundamentals resolution pipeline of coveredcall-agents:    *)
(* the LangGraph workflow fundamental -> {det | llm | agentic} ->          *)
(* divergence -> fanout_llm -> {bull, bear} -> debate -> fund_resolve ->   *)
(* proposal, together with the pure policies it calls                      *)
(* (decide_trade_action, resolve_final_fundamentals, compute_divergence).  *)
(*                                                                         *)
(* Numbers: confidences are hundredths (0.55 is 55), divergence scores and *)
(* components are thousandths (0.45 is 450).  Optional values are          *)
(* sequences of length 0 (None) or 1.                                      *)
(***************************************************************************)
EXTENDS Integers, Sequences, FiniteSets, TLC

VARIABLES
    pc,                    \* position of the run in the graph
    todo,                  \* tasks of the bull/bear superstep not yet finished
    config,                \* GraphState.config
    llm_client,            \* GraphState.llm
    fundamentals_snapshot, \* GraphState.fundamentals_snapshot
    fundamentals_report,   \* GraphState.fundamentals_report
    det_fundamentals,      \* GraphState.det_fundamentals
    llm_fundamentals,      \* GraphState.llm_fundamentals
    agentic_fundamentals,  \* GraphState.agentic_fundamentals
    agentic_result,        \* GraphState.agentic_result
    agentic_tool_history,  \* GraphState.agentic_tool_history
    divergence_report,     \* GraphState.divergence_report
    bull_case,             \* GraphState.bull_case
    bear_case,             \* GraphState.bear_case
    debate_summary,        \* GraphState.debate_summary
    final_fundamentals,    \* GraphState.final_fundamentals
    trace_nodes,           \* GraphState.trace_nodes
    loop,                  \* locals of the agentic loop while it runs
    llm_calls,             \* backend calls made so far, per calling node
    h                      \* inputs and result of a directly called function

vars ==
    << pc, todo, config, llm_client, fundamentals_snapshot, fundamentals_report,
       det_fundamentals, llm_fundamentals, agentic_fundamentals, agentic_result,
       agentic_tool_history, divergence_report, bull_case, bear_case,
       debate_summary, final_fundamentals, trace_nodes, loop, llm_calls, h >>

graphVars ==
    << pc, todo, config, llm_client, fundamentals_snapshot, fundamentals_report,
       det_fundamentals, llm_fundamentals, agentic_fundamentals, agentic_result,
       agentic_tool_history, divergence_report, bull_case, bear_case,
       debate_summary, final_fundamentals, trace_nodes, loop, llm_calls >>

-----------------------------------------------------------------------------
(* Optional values *)

None == << >>

Some(x) == << x >>

IsNone(o) == o = << >>

Get(o) == o[1]

Min(a, b) == IF a < b THEN a ELSE b

Max(a, b) == IF a > b THEN a ELSE b

\* a faulty absolute value: a negative difference counts as no difference
AbsOneSided(a) == IF a < 0 THEN 0 ELSE a

Abs(a) == IF a < 0 THEN -a ELSE a

Take(s, n) == SubSeq(s, 1, Min(n, Len(s)))

-----------------------------------------------------------------------------
(* Enumerations *)

Stance == {"BEARISH", "NEUTRAL", "BULLISH"}

CoveredCallBias == {"CAUTION", "INCOME", "UPSIDE"}

TradeAction == {"SELL_CALL", "SELL_CALL_MORE_OTM", "HOLD", "AVOID_CALLS", "CLOSE_OR_ROLL"}

FundamentalsMode == {"deterministic", "llm", "agentic"}

FinalSource == {"deterministic", "llm", "agentic"}

DivergenceSeverity == {"ALIGNED", "MINOR", "MAJOR", "CRITICAL", "EXTREME"}

NodeId ==
    {"fundamental", "det", "llm", "agentic", "divergence", "fanout_llm",
     "bull", "bear", "debate", "fund_resolve", "proposal"}

-----------------------------------------------------------------------------
(* Bounds of the model *)

\* largest number of entries in quality.missing_fields a provider returns
MaxMissing == 2

\* confidences a backend answers with (hundredths).  No gap between one of
\* these and a deterministic confidence puts the exact divergence score on a
\* band boundary, where the rounding of the double computation decides the band.
ConfVals == {33, 72, 92}

\* values of trade_policy.min_confidence a caller configures, besides leaving it out
MinConfVals == {90}

-----------------------------------------------------------------------------
(* Trade-action policy *)

\* default of the min_confidence parameter
DefaultMinConfidence == 55

\* the stance x bias table of decide_trade_action, after the confidence gate
PolicyTable(stance, bias) ==
    IF stance = "BULLISH" THEN
        IF bias = "UPSIDE" THEN
            [action |-> "AVOID_CALLS", reason |-> "Bullish + UPSIDE"]
        ELSE IF bias = "INCOME" THEN
            [action |-> "SELL_CALL_MORE_OTM", reason |-> "Bullish + INCOME"]
        ELSE
            [action |-> "SELL_CALL_MORE_OTM", reason |-> "Bullish with caution"]
    ELSE IF stance = "NEUTRAL" THEN
        IF bias = "INCOME" THEN
            [action |-> "SELL_CALL", reason |-> "Neutral + INCOME"]
        ELSE IF bias = "UPSIDE" THEN
            [action |-> "HOLD", reason |-> "Neutral + UPSIDE"]
        ELSE
            [action |-> "HOLD", reason |-> "Neutral + CAUTION"]
    ELSE IF stance = "BEARISH" THEN
        IF bias = "INCOME" THEN
            [action |-> "SELL_CALL", reason |-> "Bearish + INCOME"]
        ELSE IF bias = "CAUTION" THEN
            [action |-> "CLOSE_OR_ROLL", reason |-> "Bearish + CAUTION"]
        ELSE
            [action |-> "AVOID_CALLS", reason |-> "Bearish + UPSIDE mismatch"]
    ELSE
        [action |-> "HOLD", reason |-> "Unhandled stance/bias combination"]

\* a faulty gate: a confidence equal to min_confidence is held back too
BelowMinConfidenceInclusive(confidence, min_confidence) == confidence <= min_confidence

\* the confidence gate of decide_trade_action
BelowMinConfidence(confidence, min_confidence) == confidence < min_confidence

decide_trade_action(stance, bias, confidence, min_confidence) ==
    IF BelowMinConfidence(confidence, min_confidence) THEN
        [action |-> "HOLD", reason |-> "Confidence below min_confidence; weak signal"]
    ELSE
        PolicyTable(stance, bias)

-----------------------------------------------------------------------------
(* Configuration *)

\* mode strings the command line writes to config["fundamentals"]["mode"]
CliModes == {"deterministic", "llm", "agentic"}

\* mode strings apply_engine_overrides_from_request writes to config["mode"]
ApiModes == {"det", "llm", "agentic"}

\* config["llm"]["provider"]
Providers == {"ollama", "none"}

\* A configuration: f_mode and f_force_debate are the keys mode and
\* force_debate under config["fundamentals"], mode and force_debate the
\* top-level keys, min_confidence is config["trade_policy"]["min_confidence"],
\* llm_provider is config["llm"]["provider"].
\* Configurations the command line builds from its flags.
CliConfigs ==
    [ f_mode : {None} \cup {Some(m) : m \in CliModes},
      mode : {None},
      f_force_debate : BOOLEAN,
      force_debate : {FALSE},
      min_confidence : {None},
      llm_provider : Providers ]

\* Configurations the API route builds from a request.
ApiConfigs ==
    [ f_mode : {None},
      mode : {Some(m) : m \in ApiModes},
      f_force_debate : {FALSE},
      force_debate : BOOLEAN,
      min_confidence : {None},
      llm_provider : {"ollama"} ]

\* Configurations a caller of run_analysis passes with a trade policy.
LibraryConfigs ==
    [ f_mode : {Some(m) : m \in CliModes},
      mode : {None},
      f_force_debate : BOOLEAN,
      force_debate : {FALSE},
      min_confidence : {Some(m) : m \in MinConfVals},
      llm_provider : {"ollama"} ]

Configs == CliConfigs \cup ApiConfigs \cup LibraryConfigs

\* mode.strip().lower() on the mode strings configurations carry
StripLower(mode) == IF mode = " LLM " THEN "llm" ELSE mode

normalize_fundamentals_mode(mode) ==
    LET m == StripLower(mode)
    IN  IF m \in {"deterministic", "det"} THEN Some("deterministic")
        ELSE IF m = "llm" THEN Some("llm")
        ELSE IF m \in {"agentic", "llm_agentic"} THEN Some("agentic")
        ELSE None   \* ValueError

get_fundamentals_mode(cfg) ==
    LET raw == IF ~IsNone(cfg.f_mode) THEN Get(cfg.f_mode)
               ELSE IF ~IsNone(cfg.mode) THEN Get(cfg.mode)
               ELSE "deterministic"
    IN  normalize_fundamentals_mode(raw)

Mode == Get(get_fundamentals_mode(config))

\* _min_conf of proposal_node
_min_conf(cfg) ==
    IF IsNone(cfg.min_confidence) THEN DefaultMinConfidence ELSE Get(cfg.min_confidence)

\* apply_engine_overrides_from_request on a base configuration
apply_engine_overrides_from_request(base, mode, force_debate) ==
    LET c1 == IF IsNone(mode) THEN base
              ELSE [base EXCEPT !.mode =
                        Some(IF Get(mode) \in {"deterministic", "det"} THEN "det" ELSE Get(mode))]
    IN  IF IsNone(force_debate) THEN c1
        ELSE [c1 EXCEPT !.force_debate = Get(force_debate)]

\* coveredcall_agents.config.default_config.DEFAULT_CONFIG, the base of API requests
DEFAULT_CONFIG ==
    [ f_mode |-> None, mode |-> None, f_force_debate |-> FALSE, force_debate |-> FALSE,
      min_confidence |-> None, llm_provider |-> "ollama" ]

-----------------------------------------------------------------------------
(* Snapshots and the deterministic evaluator *)

\* thresholds read by fundamental_node (percent; debt-to-equity in hundredths)
StrongGrowthPct == 5

StrongOperMarginPct == 10

MinOperMarginPct == 5

MaxDebtToEquity == 200

\* answers of the snapshot provider: revenue growth and operating margin in
\* percent, debt-to-equity in hundredths, the number of entries of
\* quality.missing_fields, and quality.warnings
Snapshots ==
    [ growth : {Some(-3), Some(12)},
      opm : {Some(30)},
      d2e : {None, Some(250)},
      missing : 0 .. MaxMissing,
      warnings : {<< >>} ]

\* the View and the Report fundamental_node computes from a snapshot
DetSignals(snap) ==
    LET g == snap.growth
        o == snap.opm
        d == snap.d2e
    IN  [ bullish |-> (IF ~IsNone(g) /\ Get(g) >= StrongGrowthPct THEN 1 ELSE 0)
                      + (IF ~IsNone(o) /\ Get(o) >= StrongOperMarginPct THEN 1 ELSE 0),
          bearish |-> (IF ~IsNone(g) /\ Get(g) < StrongGrowthPct /\ Get(g) < 0 THEN 1 ELSE 0)
                      + (IF ~IsNone(o) /\ Get(o) < StrongOperMarginPct
                            /\ Get(o) < MinOperMarginPct THEN 1 ELSE 0)
                      + (IF ~IsNone(d) /\ Get(d) > MaxDebtToEquity THEN 1 ELSE 0),
          points |-> (IF ~IsNone(g) THEN << "Revenue growth YoY" >> ELSE << >>)
                     \o (IF ~IsNone(o) THEN << "Operating margin" >> ELSE << >>)
                     \o (IF ~IsNone(d) THEN << "Debt-to-equity" >> ELSE << >>),
          risks |-> (IF IsNone(g) THEN << "Missing revenue growth data" >> ELSE << >>)
                    \o (IF IsNone(o) THEN << "Missing operating margin data" >> ELSE << >>)
                    \o (IF IsNone(d) THEN << "Missing leverage (debt-to-equity) data" >>
                        ELSE IF Get(d) > MaxDebtToEquity THEN << "Leverage is elevated" >>
                        ELSE << >>) ]

DetStance(sig) ==
    IF sig.bearish >= 2 THEN "BEARISH"
    ELSE IF sig.bullish >= 2 /\ sig.bearish = 0 THEN "BULLISH"
    ELSE "NEUTRAL"

DetBias(stance) ==
    IF stance = "BULLISH" THEN "UPSIDE"
    ELSE IF stance = "BEARISH" THEN "CAUTION"
    ELSE "INCOME"

DetTiltPoint(stance) ==
    IF stance = "BULLISH" THEN "Fundamentals tilt bullish"
    ELSE IF stance = "BEARISH" THEN "Fundamentals tilt bearish"
    ELSE "Fundamentals neutral"

\* a faulty confidence: the penalty for missing fields has no floor
DetConfidenceNoFloor(missing) ==
    IF missing = 0 THEN 80 ELSE 70 - 10 * missing

DetConfidence(missing) ==
    IF missing = 0 THEN 80 ELSE Max(30, 70 - 10 * missing)

DetView(snap) ==
    LET sig == DetSignals(snap)
        stance == DetStance(sig)
    IN  [ stance |-> stance,
          covered_call_bias |-> DetBias(stance),
          confidence |-> DetConfidence(snap.missing),
          key_points |-> Take(sig.points \o << DetTiltPoint(stance) >>, 4),
          risks |-> Take(sig.risks \o snap.warnings, 2) ]

DetReport(snap) ==
    LET sig == DetSignals(snap)
        stance == DetStance(sig)
        conf == DetConfidence(snap.missing)
        decision == decide_trade_action(stance, DetBias(stance), conf, DefaultMinConfidence)
    IN  [ stance |-> stance,
          covered_call_bias |-> DetBias(stance),
          confidence |-> conf,
          key_points |-> sig.points \o << DetTiltPoint(stance) >>,
          risks |-> sig.risks \o snap.warnings,
          action |-> Some(decision.action),
          action_reason |-> Some(decision.reason),
          appendix |-> None ]

-----------------------------------------------------------------------------
(* Divergence engine *)

stance_map(stance) ==
    IF stance = "BEARISH" THEN -1 ELSE IF stance = "BULLISH" THEN 1 ELSE 0

bias_map(bias) ==
    IF bias = "CAUTION" THEN -1 ELSE IF bias = "UPSIDE" THEN 1 ELSE 0

divergence_severity(score) ==
    IF score < 200 THEN "ALIGNED"
    ELSE IF score < 400 THEN "MINOR"
    ELSE IF score < 650 THEN "MAJOR"
    ELSE "CRITICAL"

action_hint(severity) ==
    IF severity = "ALIGNED" THEN "Proceed with deterministic recommendation"
    ELSE IF severity = "MINOR" THEN "Proceed but annotate LLM nuance"
    ELSE IF severity = "MAJOR" THEN "Surface both views to user (or trigger debate)"
    ELSE "Require manual review or run debate/second pass"

\* a confidence of 0.0 is falsy and is replaced by 0.5
ConfOrDefault(confidence) == IF confidence = 0 THEN 50 ELSE confidence

compute_divergence(det, llm) ==
    LET det_conf == ConfOrDefault(det.confidence)
        llm_conf == ConfOrDefault(llm.confidence)
        stance_div == (Abs(stance_map(det.stance) - stance_map(llm.stance)) * 1000) \div 2
        bias_div == (Abs(bias_map(det.covered_call_bias)
                         - bias_map(llm.covered_call_bias)) * 1000) \div 2
        conf_div == (Min(Abs(det_conf - llm_conf), 50) * 1000) \div 50
        raw == (450 * stance_div + 300 * bias_div + 250 * conf_div) \div 1000
        score == Max(0, Min(1000, raw))
        sev == divergence_severity(score)
    IN  [ score |-> score,
          severity |-> sev,
          stance |-> << det.stance, llm.stance >>,
          covered_call_bias |-> << det.covered_call_bias, llm.covered_call_bias >>,
          confidence |-> << det_conf, llm_conf >>,
          stance_divergence |-> stance_div,
          bias_divergence |-> bias_div,
          confidence_divergence |-> conf_div,
          action_hint |-> action_hint(sev),
          notes |-> None ]

\* the report divergence_node builds when one of its inputs is missing
MissingInputsReport ==
    [ score |-> 0,
      severity |-> "ALIGNED",
      stance |-> << "NEUTRAL", "NEUTRAL" >>,
      covered_call_bias |-> << "INCOME", "INCOME" >>,
      confidence |-> << 50, 50 >>,
      stance_divergence |-> 0,
      bias_divergence |-> 0,
      confidence_divergence |-> 0,
      action_hint |-> "Proceed with deterministic recommendation",
      notes |-> Some("det_fundamentals or (agentic_fundamentals/llm_fundamentals) missing") ]

\* a faulty choice of the comparison View: the llm View first
DivergenceOfLlmFirst(det, agentic, llm) ==
    LET other == IF ~IsNone(llm) THEN llm ELSE agentic
    IN  IF IsNone(det) \/ IsNone(other) THEN MissingInputsReport
        ELSE compute_divergence(Get(det), Get(other))

\* the update divergence_node returns
DivergenceOf(det, agentic, llm) ==
    LET other == IF ~IsNone(agentic) THEN agentic ELSE llm
    IN  IF IsNone(det) \/ IsNone(other) THEN MissingInputsReport
        ELSE compute_divergence(Get(det), Get(other))

-----------------------------------------------------------------------------
(* Resolution policy *)

_severity(dr) == IF IsNone(dr) THEN "UNKNOWN" ELSE Get(dr).severity

\* a faulty decision record: the confidence is capped at 0.5
_mk_capped(src, picked, why) ==
    [ stance |-> picked.stance,
      covered_call_bias |-> picked.covered_call_bias,
      confidence |-> Min(picked.confidence, 50),
      source |-> src,
      rationale |-> why ]

_mk(src, picked, why) ==
    [ stance |-> picked.stance,
      covered_call_bias |-> picked.covered_call_bias,
      confidence |-> picked.confidence,
      source |-> src,
      rationale |-> why ]

\* a faulty rule 1: the mode is compared with its alias
AgenticRuleAlias(mode, agentic) == mode = "llm_agentic" /\ ~IsNone(agentic)

\* rule 1: agentic mode and an agentic View
AgenticRule(mode, agentic) == mode = "agentic" /\ ~IsNone(agentic)

\* a faulty rule 2: force_debate switches the rule off
PreferDetRuleUnlessForced(severity, det, force_debate) ==
    severity \in {"ALIGNED", "MINOR"} /\ ~IsNone(det) /\ ~force_debate

\* rule 2: aligned or minor divergence and a deterministic View
PreferDetRule(severity, det, force_debate) ==
    severity \in {"ALIGNED", "MINOR"} /\ ~IsNone(det)

\* a faulty rule 3: an llm View wins whether or not force_debate is set
ForceDebateRuleAlways(force_debate, llm) == ~IsNone(llm)

\* rule 3: force_debate and an llm View
ForceDebateRule(force_debate, llm) == force_debate /\ ~IsNone(llm)

\* rule 4: major or critical divergence, force_debate and an llm View
SeverityRule(severity, force_debate, llm) ==
    severity \in {"MAJOR", "CRITICAL"} /\ force_debate /\ ~IsNone(llm)

\* a faulty rule 5: the llm View is looked at before the deterministic one
FallbackLlmFirst(det, llm, agentic) ==
    IF ~IsNone(llm) THEN Some(_mk("llm", Get(llm), "fallback llm"))
    ELSE IF ~IsNone(det) THEN Some(_mk("deterministic", Get(det), "fallback deterministic"))
    ELSE IF ~IsNone(agentic) THEN Some(_mk("agentic", Get(agentic), "fallback agentic"))
    ELSE None

\* rule 5: the first View present; None stands for the RuntimeError raised
\* when there is none
Fallback(det, llm, agentic) ==
    IF ~IsNone(det) THEN Some(_mk("deterministic", Get(det), "fallback deterministic"))
    ELSE IF ~IsNone(llm) THEN Some(_mk("llm", Get(llm), "fallback llm"))
    ELSE IF ~IsNone(agentic) THEN Some(_mk("agentic", Get(agentic), "fallback agentic"))
    ELSE None

resolve_final_fundamentals(mode, det, llm, agentic, dr, force_debate) ==
    LET severity == _severity(dr)
    IN  IF AgenticRule(mode, agentic) THEN
            Some(_mk("agentic", Get(agentic), "mode=agentic; agentic present"))
        ELSE IF PreferDetRule(severity, det, force_debate) THEN
            Some(_mk("deterministic", Get(det), "prefer deterministic"))
        ELSE IF ForceDebateRule(force_debate, llm) THEN
            Some(_mk("llm", Get(llm), "force_debate; using llm"))
        ELSE IF SeverityRule(severity, force_debate, llm) THEN
            Some(_mk("llm", Get(llm), "severity + force_debate; using llm"))
        ELSE Fallback(det, llm, agentic)

\* force_debate as fundamentals_resolver_node reads it
ResolverForceDebate(cfg) == cfg.f_force_debate \/ cfg.force_debate

-----------------------------------------------------------------------------
(* Debate engine *)

\* a faulty gate: force_debate is not looked at
_debate_enabled_by_severity(cfg, dr) ==
    (IF IsNone(dr) THEN "" ELSE Get(dr).severity) \in {"MAJOR", "CRITICAL", "EXTREME"}

_debate_enabled(cfg, dr) ==
    IF cfg.f_force_debate THEN TRUE
    ELSE (IF IsNone(dr) THEN "" ELSE Get(dr).severity) \in {"MAJOR", "CRITICAL", "EXTREME"}

\* AgentArgument a backend answers bull_node and bear_node with
ArgumentAnswers ==
    { [ stance |-> "BULLISH", covered_call_bias |-> "UPSIDE", confidence |-> 72,
        bullets |-> << "Mock argument bullet 1" >>, risks |-> << >> ] }

BullFallback ==
    [ stance |-> "NEUTRAL", covered_call_bias |-> "INCOME", confidence |-> 30,
      bullets |-> << "Bull case unavailable (LLM timeout); continuing without it." >>,
      risks |-> << "Debate may be incomplete due to bull-side timeout." >> ]

BearFallback ==
    [ stance |-> "NEUTRAL", covered_call_bias |-> "CAUTION", confidence |-> 30,
      bullets |-> << "Bear case unavailable (LLM timeout); continuing without it." >>,
      risks |-> << "Debate may be incomplete due to bear-side timeout." >> ]

\* the argument debate_node substitutes for a missing side
MissingSide ==
    [ stance |-> "NEUTRAL", covered_call_bias |-> "INCOME", confidence |-> 30,
      bullets |-> << >>, risks |-> << >> ]

\* DebateSummary a backend answers debate_node with; "" is a blank line
DebateAnswers ==
    [ bull : ArgumentAnswers,
      bear : ArgumentAnswers,
      synthesis : { << "Mock synthesis point" >>, << "" >> },
      disagreements : { << >> } ]

DebateSkipped(bull, bear) ==
    [ bull |-> IF IsNone(bull) THEN MissingSide ELSE Get(bull),
      bear |-> IF IsNone(bear) THEN MissingSide ELSE Get(bear),
      synthesis |-> << "Debate skipped: missing bull_case and/or bear_case." >>,
      disagreements |-> << >> ]

\* a faulty fallback: the sides are replaced by placeholders
DebateFallbackBlank(bull, bear) ==
    [ bull |-> MissingSide,
      bear |-> MissingSide,
      synthesis |-> << "Debate JSON parse failed; fallback used." >>,
      disagreements |-> << >> ]

DebateFallback(bull, bear) ==
    [ bull |-> bull,
      bear |-> bear,
      synthesis |-> << "Debate JSON parse failed; fallback used." >>,
      disagreements |-> << >> ]

\* ways a backend call fails
Failures == {"timeout", "malformed-output", "schema-mismatch", "exception"}

\* what the backend does with the one call of bull_node or bear_node
SideAnswers ==
    { [ kind |-> "payload", payload |-> Some(a), failure |-> None ] : a \in ArgumentAnswers }
    \cup { [ kind |-> "failure", payload |-> None, failure |-> Some(f) ] : f \in Failures }

\* what the backend does with the synthesis call of debate_node
DebateTurnAnswers ==
    { [ kind |-> "payload", payload |-> Some(d), failure |-> None ] : d \in DebateAnswers }
    \cup { [ kind |-> "failure", payload |-> None, failure |-> Some(f) ] : f \in Failures }

-----------------------------------------------------------------------------
(* Appendix *)

\* some line of the first two entries is not blank
WroteAny(lines) == \E i \in 1 .. Min(2, Len(lines)) : lines[i] # ""

_format_debate_block(ds) ==
    IF IsNone(ds) THEN ""
    ELSE IF WroteAny(Get(ds).synthesis) \/ WroteAny(Get(ds).disagreements)
         THEN "LLM Debate Summary"
    ELSE ""

_format_agentic_block(af, ar) ==
    IF IsNone(af) /\ IsNone(ar) THEN "" ELSE "Agentic Fundamentals"

format_divergence_report(rep) ==
    IF IsNone(rep) THEN "" ELSE "DIVERGENCE REPORT"

\* the non-empty blocks, in order
_join_appendix(parts) == SelectSeq(parts, LAMBDA p : p # "")

\* None when no block is written
build_appendix(dr, af, ar, ds) ==
    LET appendix == _join_appendix(<< format_divergence_report(dr),
                                      _format_agentic_block(af, ar),
                                      _format_debate_block(ds) >>)
    IN  IF appendix = << >> THEN None ELSE Some(appendix)

\* a block is part of an appendix
HasBlock(appendix, block) ==
    ~IsNone(appendix) /\ \E i \in 1 .. Len(Get(appendix)) : Get(appendix)[i] = block

-----------------------------------------------------------------------------
(* LLM evaluator *)

\* LLMFundamentalsPayload a backend answers llm_node with
LLMPayloads ==
    [ stance : Stance,
      covered_call_bias : CoveredCallBias,
      confidence : ConfVals,
      bullets : { << "LLM bullet" >> },
      risks : { << >> } ]

\* the View llm_node builds from a validated payload
ViewOfPayload(payload) ==
    [ stance |-> payload.stance,
      covered_call_bias |-> payload.covered_call_bias,
      confidence |-> payload.confidence,
      key_points |-> Take(payload.bullets, 4),
      risks |-> Take(payload.risks, 2) ]

LLMFallbackCap == 60

\* a faulty fallback: the deterministic View is passed on with its confidence
_fallback_uncapped(det) ==
    IF ~IsNone(det) THEN Get(det)
    ELSE [ stance |-> "NEUTRAL", covered_call_bias |-> "INCOME", confidence |-> 30,
           key_points |-> << "LLM fundamentals unavailable; proceeding without it." >>,
           risks |-> << >> ]

_fallback_from_det(det) ==
    LET base == IF ~IsNone(det) THEN Get(det)
                ELSE [ stance |-> "NEUTRAL", covered_call_bias |-> "INCOME",
                       confidence |-> 30,
                       key_points |-> << "LLM fundamentals unavailable; proceeding without it." >>,
                       risks |-> << >> ]
    IN  [ base EXCEPT !.confidence = Min(base.confidence, LLMFallbackCap) ]

-----------------------------------------------------------------------------
(* Agentic evaluator *)

MAX_TURNS == 3

MAX_TOOL_CALLS == 2

_coerce_stance(x) ==
    IF IsNone(x) THEN "NEUTRAL"
    ELSE IF Get(x) \in {"BULLISH", "BULL", "LONG", "BUY"} THEN "BULLISH"
    ELSE IF Get(x) \in {"BEARISH", "BEAR", "SHORT", "SELL"} THEN "BEARISH"
    ELSE "NEUTRAL"

_coerce_bias(x) ==
    IF IsNone(x) THEN "INCOME"
    ELSE IF Get(x) \in {"UPSIDE", "UP", "GROWTH"} THEN "UPSIDE"
    ELSE IF Get(x) \in {"CAUTION", "DEFENSIVE", "RISK_OFF"} THEN "CAUTION"
    ELSE "INCOME"

\* the bullets a backend writes, with the number of digit characters in each
DigitsIn(bullet) ==
    CASE bullet = "Revenue growth 12.0% YoY" -> 3
      [] bullet = "Operating margin 3%" -> 1
      [] bullet = "Top 1 pick" -> 1
      [] OTHER -> 0

RECURSIVE DigitCount(_)
DigitCount(bullets) ==
    IF bullets = << >> THEN 0 ELSE DigitsIn(Head(bullets)) + DigitCount(Tail(bullets))

\* a weaker grounding test: one digit is enough
_has_any_numeric_grounding(resp) == DigitCount(resp.bullets) >= 1

_has_min_numeric_grounding(resp) == DigitCount(resp.bullets) >= 2

\* _slugify_tool_name on the tool names a backend writes
_slugify_tool_name(raw) ==
    CASE raw = "Get-Snapshot" -> "get_snapshot"
      [] raw = " snapshot " -> "snapshot"
      [] raw = "Top Candidates" -> "top_candidates"
      [] raw = "web.search" -> "web_search"
      [] OTHER -> raw

AgenticToolName == {"get_snapshot", "get_top_candidates", "explain_filter_rejections"}

_TOOL_ALIASES(slug) ==
    IF slug \in {"get_snapshot", "snapshot", "get_quote", "quote", "price_snapshot"}
        THEN Some("get_snapshot")
    ELSE IF slug \in {"get_top_candidates", "top_candidates", "candidates",
                      "rank_candidates", "select_candidates"}
        THEN Some("get_top_candidates")
    ELSE IF slug \in {"explain_filter_rejections", "filter_rejections", "rejections",
                      "explain_rejections"}
        THEN Some("explain_filter_rejections")
    ELSE None

normalize_tool_name(raw) ==
    LET slug == _slugify_tool_name(raw)
    IN  IF slug \in AgenticToolName THEN Some(slug) ELSE _TOOL_ALIASES(slug)

\* ToolResult of one dispatch; n_ok says whether args["n"] converts to an int
dispatch_agentic_tool(call) ==
    LET t == normalize_tool_name(call.tool)
    IN  IF IsNone(t) THEN [tool |-> None, ok |-> FALSE, error |-> Some("Unknown tool")]
        ELSE IF Get(t) = "get_top_candidates" /\ ~call.n_ok
            THEN [tool |-> t, ok |-> FALSE, error |-> Some("ValueError")]
        ELSE [tool |-> t, ok |-> TRUE, error |-> None]

\* tool calls a backend asks for
ToolCalls ==
    { [tool |-> " snapshot ", n_ok |-> TRUE],
      [tool |-> "web.search", n_ok |-> TRUE] }

\* validated AgenticResponse objects a backend answers a turn with
AgenticResponses ==
    { [ action |-> "CALL_TOOL", tool_call |-> tc, confidence |-> 50, stance |-> None,
        covered_call_bias |-> None, bullets |-> << >>, risks |-> << >> ]
        : tc \in {None} \cup {Some(c) : c \in ToolCalls} }
    \cup
    { [ action |-> "PROPOSE", tool_call |-> None, confidence |-> 72,
        stance |-> Some("BULL"), covered_call_bias |-> Some("UPSIDE"),
        bullets |-> << "Revenue growth 12.0% YoY" >>, risks |-> << >> ],
      [ action |-> "PROPOSE", tool_call |-> None, confidence |-> 33,
        stance |-> Some("BEARISH"), covered_call_bias |-> None,
        bullets |-> << "Operating margin 3%", "Top 1 pick" >>,
        risks |-> << "Thin margin" >> ],
      [ action |-> "PROPOSE", tool_call |-> None, confidence |-> 92,
        stance |-> Some("BULLISH"), covered_call_bias |-> Some("UPSIDE"),
        bullets |-> << "Strong business", "Top 1 pick" >>, risks |-> << >> ],
      [ action |-> "ABSTAIN", tool_call |-> None, confidence |-> 0,
        stance |-> None, covered_call_bias |-> None,
        bullets |-> << >>, risks |-> << "Not enough data" >> ] }

\* the View agentic_node builds from an accepted response
ViewOfResponse(resp) ==
    [ stance |-> _coerce_stance(resp.stance),
      covered_call_bias |-> _coerce_bias(resp.covered_call_bias),
      confidence |-> ConfOrDefault(resp.confidence),
      key_points |-> resp.bullets,
      risks |-> resp.risks ]

\* a fallback that forgets the last error
FallbackResponseSilent(last_error) ==
    [ action |-> "ABSTAIN", tool_call |-> None, confidence |-> 0,
      stance |-> None, covered_call_bias |-> None, bullets |-> << >>,
      risks |-> << "LLM output failed validation or exceeded limits." >> ]

\* the ABSTAIN response and View agentic_node ends with when no turn succeeds
FallbackResponse(last_error) ==
    [ action |-> "ABSTAIN", tool_call |-> None, confidence |-> 0,
      stance |-> None, covered_call_bias |-> None, bullets |-> << >>,
      risks |-> Take(<< "LLM output failed validation or exceeded limits." >> \o last_error, 4) ]

\* a faulty terminal View: it carries the default confidence
FallbackViewHalf(last_error) ==
    [ stance |-> "NEUTRAL", covered_call_bias |-> "INCOME", confidence |-> 50,
      key_points |-> << >>,
      risks |-> FallbackResponse(last_error).risks ]

FallbackView(last_error) ==
    [ stance |-> "NEUTRAL", covered_call_bias |-> "INCOME", confidence |-> 0,
      key_points |-> << >>,
      risks |-> FallbackResponse(last_error).risks ]

\* locals of agentic_node before the first turn
LoopInit == [ turn |-> 0, tool_calls |-> 0, last_error |-> None, tool_history |-> << >> ]

-----------------------------------------------------------------------------
(* The run: CoveredCallAgentsGraph.propagate and the nodes of the graph *)

Errors == {"ValueError", "RuntimeError"}

NoCalls == [ llm |-> 0, agentic |-> 0, tools |-> 0, bull |-> 0, bear |-> 0, debate |-> 0 ]

Init ==
    /\ pc = "START"
    /\ todo = {}
    /\ config \in Configs
    /\ llm_client = None
    /\ fundamentals_snapshot = None
    /\ fundamentals_report = None
    /\ det_fundamentals = None
    /\ llm_fundamentals = None
    /\ agentic_fundamentals = None
    /\ agentic_result = None
    /\ agentic_tool_history = << >>
    /\ divergence_report = None
    /\ bull_case = None
    /\ bear_case = None
    /\ debate_summary = None
    /\ final_fundamentals = None
    /\ trace_nodes = << >>
    /\ loop = LoopInit
    /\ llm_calls = NoCalls
    /\ h = None

\* a faulty choice of client: every provider name but 'none' gets a client
ClientOfAnyName(provider) ==
    IF provider = "mock" THEN Some("MockLLMClient")
    ELSE IF provider \in {"none", ""} THEN None
    ELSE Some("OllamaClient")

\* the client propagate builds for a provider name; None is no client
ClientOf(provider) ==
    IF provider = "mock" THEN Some("MockLLMClient")
    ELSE IF provider = "ollama" THEN Some("OllamaClient")
    ELSE None

\* a faulty trace wrapper: the newest entry is put first
TracedFirst(name) == trace_nodes' = << name >> \o trace_nodes

\* the node trace_node wraps returned: its name is appended to the trace
Traced(name) == trace_nodes' = Append(trace_nodes, name)

\* propagate up to the invocation of the compiled graph
propagate ==
    /\ pc = "START"
    /\ LET mode == get_fundamentals_mode(config)
           client == IF ~IsNone(mode) /\ Get(mode) \in {"llm", "agentic"}
                     THEN ClientOf(config.llm_provider) ELSE None
       IN  IF IsNone(mode) THEN
               /\ pc' = "ValueError"
               /\ UNCHANGED llm_client
           ELSE IF Get(mode) \in {"llm", "agentic"} /\ IsNone(client) THEN
               /\ pc' = "ValueError"
               /\ UNCHANGED llm_client
           ELSE
               /\ pc' = "fundamental"
               /\ llm_client' = client
    /\ UNCHANGED << todo, config, fundamentals_snapshot, fundamentals_report,
                    det_fundamentals, llm_fundamentals, agentic_fundamentals,
                    agentic_result, agentic_tool_history, divergence_report,
                    bull_case, bear_case, debate_summary, final_fundamentals,
                    trace_nodes, loop, llm_calls, h >>

\* a faulty router: every mode but AGENTIC goes to the llm node
route_after_fundamental_llm(mode) ==
    IF mode = "agentic" THEN "agentic" ELSE "llm"

route_after_fundamental(mode) ==
    IF mode = "agentic" THEN "agentic"
    ELSE IF mode = "llm" THEN "llm"
    ELSE "det"

\* fundamental_node when the snapshot provider answers with this snapshot
fundamental_node_on(snap) ==
    /\ pc = "fundamental"
    /\ fundamentals_snapshot' = Some(snap)
    /\ det_fundamentals' = Some(DetView(snap))
    /\ fundamentals_report' =
          IF Mode \in {"llm", "agentic"} THEN fundamentals_report
          ELSE Some(DetReport(snap))
    /\ Traced("fundamental")
    /\ pc' = route_after_fundamental(Mode)
    /\ UNCHANGED << todo, config, llm_client, llm_fundamentals, agentic_fundamentals,
                    agentic_result, agentic_tool_history, divergence_report,
                    bull_case, bear_case, debate_summary, final_fundamentals,
                    loop, llm_calls >>

fundamental_node ==
    /\ \E snap \in Snapshots : fundamental_node_on(snap)
    /\ UNCHANGED h

\* the det node is a no-op
det_node ==
    /\ pc = "det"
    /\ Traced("det")
    /\ pc' = "fund_resolve"
    /\ UNCHANGED << todo, config, llm_client, fundamentals_snapshot, fundamentals_report,
                    det_fundamentals, llm_fundamentals, agentic_fundamentals,
                    agentic_result, agentic_tool_history, divergence_report,
                    bull_case, bear_case, debate_summary, final_fundamentals,
                    loop, llm_calls, h >>

\* what the backend does with the one generate_json call of llm_node: a
\* validated payload comes back, or the call fails
LLMAnswers ==
    { [kind |-> "payload", payload |-> Some(p), failure |-> None] : p \in LLMPayloads }
    \cup { [kind |-> "failure", payload |-> None, failure |-> Some(f)] : f \in Failures }

\* llm_node when the backend, if called, answers with this
llm_node_on(answer) ==
    /\ pc = "llm"
    /\ IF ~IsNone(llm_fundamentals) THEN
           /\ pc' = "divergence"
           /\ Traced("llm")
           /\ UNCHANGED << llm_fundamentals, llm_calls >>
       ELSE IF IsNone(fundamentals_snapshot) THEN
           /\ pc' = "RuntimeError"
           /\ UNCHANGED << llm_fundamentals, llm_calls, trace_nodes >>
       ELSE IF IsNone(llm_client) THEN
           /\ pc' = "divergence"
           /\ Traced("llm")
           /\ UNCHANGED << llm_fundamentals, llm_calls >>
       ELSE
           /\ pc' = "divergence"
           /\ Traced("llm")
           /\ llm_calls' = [llm_calls EXCEPT !.llm = @ + 1]
           /\ llm_fundamentals' =
                 IF answer.kind = "payload" THEN Some(ViewOfPayload(Get(answer.payload)))
                 ELSE Some(_fallback_from_det(det_fundamentals))
    /\ UNCHANGED << todo, config, llm_client, fundamentals_snapshot, fundamentals_report,
                    det_fundamentals, agentic_fundamentals, agentic_result,
                    agentic_tool_history, divergence_report, bull_case, bear_case,
                    debate_summary, final_fundamentals, loop >>

\* one backend call, answered by a valid payload or failing in any way
llm_node ==
    /\ \E answer \in LLMAnswers : llm_node_on(answer)
    /\ UNCHANGED h

\* what a backend does in one turn of the agentic loop: the call raises (or
\* its text holds no valid AgenticResponse), the JSON object has no "action",
\* or a validated response comes back
BackendTurns ==
    { [kind |-> "raise", resp |-> None], [kind |-> "no_action", resp |-> None] }
    \cup { [kind |-> "resp", resp |-> Some(r)] : r \in AgenticResponses }

\* one iteration of the for loop of agentic_node: the locals after it and the
\* response it returns with, if any
agentic_turn(l, answer, has_snapshot) ==
    LET l1 == [l EXCEPT !.turn = @ + 1]
        retry(msg) == [ loop |-> [l1 EXCEPT !.last_error = Some(msg)], accepted |-> None ]
    IN  IF answer.kind = "raise" THEN retry("LLM error")
        ELSE IF answer.kind = "no_action" THEN
            retry("Your JSON is missing required field 'action'.")
        ELSE
            LET resp == Get(answer.resp)
            IN  IF resp.action = "CALL_TOOL" THEN
                    IF IsNone(resp.tool_call) THEN retry("CALL_TOOL requires tool_call")
                    ELSE IF l.tool_calls >= MAX_TOOL_CALLS THEN retry("Tool call limit reached")
                    ELSE [ loop |-> [l1 EXCEPT
                                       !.tool_calls = @ + 1,
                                       !.tool_history =
                                           Append(@, dispatch_agentic_tool(Get(resp.tool_call))),
                                       !.last_error = None],
                           accepted |-> None ]
                ELSE IF resp.action = "PROPOSE" /\ has_snapshot
                        /\ ~_has_min_numeric_grounding(resp) THEN
                    retry("Your PROPOSE must cite at least two snapshot numbers in bullets")
                ELSE [ loop |-> l1, accepted |-> Some(resp) ]

\* a faulty loop bound: one turn more
LoopContinuesOneMore(l) == l.turn <= MAX_TURNS

\* the for loop of agentic_node runs while this holds
LoopContinues(l) == l.turn < MAX_TURNS

\* one iteration of agentic_node's loop on the backend's answer, and the return
\* it leads to, if any
agentic_node_on(answer) ==
    LET out == agentic_turn(loop, answer, ~IsNone(fundamentals_snapshot))
        l2 == out.loop
    IN  /\ llm_calls' = [llm_calls EXCEPT
                           !.agentic = @ + 1,
                           !.tools = @ + (l2.tool_calls - loop.tool_calls)]
        /\ IF ~IsNone(out.accepted) THEN
               /\ agentic_result' = out.accepted
               /\ agentic_tool_history' = l2.tool_history
               /\ agentic_fundamentals' = Some(ViewOfResponse(Get(out.accepted)))
               /\ llm_fundamentals' = Some(ViewOfResponse(Get(out.accepted)))
               /\ loop' = LoopInit
               /\ pc' = "divergence"
               /\ Traced("agentic")
           ELSE IF LoopContinues(l2) THEN
               /\ loop' = l2
               /\ UNCHANGED << pc, agentic_result, agentic_tool_history,
                               agentic_fundamentals, llm_fundamentals,
                               trace_nodes >>
           ELSE
               /\ agentic_result' = Some(FallbackResponse(l2.last_error))
               /\ agentic_tool_history' = l2.tool_history
               /\ agentic_fundamentals' = Some(FallbackView(l2.last_error))
               /\ llm_fundamentals' = Some(FallbackView(l2.last_error))
               /\ loop' = LoopInit
               /\ pc' = "divergence"
               /\ Traced("agentic")

\* what agentic_node leaves alone
agentic_node_keeps ==
    UNCHANGED << todo, config, llm_client, fundamentals_snapshot, fundamentals_report,
                 det_fundamentals, divergence_report, bull_case, bear_case,
                 debate_summary, final_fundamentals >>

\* agentic_node, one backend call per step, from its entry to its return
agentic_node ==
    /\ pc = "agentic"
    /\ IF loop.turn = 0 /\ ~IsNone(agentic_result) THEN
           /\ pc' = "divergence"
           /\ Traced("agentic")
           /\ UNCHANGED << agentic_result, agentic_tool_history, agentic_fundamentals,
                           llm_fundamentals, loop, llm_calls >>
       ELSE IF loop.turn = 0 /\ IsNone(llm_client) THEN
           /\ pc' = "RuntimeError"
           /\ UNCHANGED << agentic_result, agentic_tool_history, agentic_fundamentals,
                           llm_fundamentals, loop, llm_calls, trace_nodes >>
       ELSE
           \E answer \in BackendTurns : agentic_node_on(answer)
    /\ agentic_node_keeps
    /\ UNCHANGED h

route_from_divergence(mode) ==
    IF mode \in {"llm", "agentic"} THEN "fanout_llm" ELSE "fund_resolve"

divergence_node ==
    /\ pc = "divergence"
    /\ divergence_report' =
          Some(DivergenceOf(det_fundamentals, agentic_fundamentals, llm_fundamentals))
    /\ Traced("divergence")
    /\ pc' = route_from_divergence(Mode)
    /\ UNCHANGED << todo, config, llm_client, fundamentals_snapshot, fundamentals_report,
                    det_fundamentals, llm_fundamentals, agentic_fundamentals,
                    agentic_result, agentic_tool_history, bull_case, bear_case,
                    debate_summary, final_fundamentals, loop, llm_calls, h >>

\* fanout_llm is a no-op; bull and bear run in the superstep after it
fanout_llm_node ==
    /\ pc = "fanout_llm"
    /\ Traced("fanout_llm")
    /\ pc' = "parallel"
    /\ todo' = {"bull", "bear"}
    /\ UNCHANGED << config, llm_client, fundamentals_snapshot, fundamentals_report,
                    det_fundamentals, llm_fundamentals, agentic_fundamentals,
                    agentic_result, agentic_tool_history, divergence_report,
                    bull_case, bear_case, debate_summary, final_fundamentals,
                    loop, llm_calls, h >>

\* a faulty join: the debate node starts when the first side has returned
TaskReturnedNoBarrier(name) ==
    /\ todo' = todo \ {name}
    /\ pc' = "debate"
    /\ trace_nodes' = Append(trace_nodes, name)

\* a task of the bull/bear superstep returned.  The writes of a superstep are
\* applied when its last task has returned, in the order of the task names,
\* and the debate node runs in the next superstep.
TaskReturned(name) ==
    /\ todo' = todo \ {name}
    /\ IF todo \ {name} = {} THEN
           /\ pc' = "debate"
           /\ trace_nodes' = trace_nodes \o << "bear", "bull" >>
       ELSE UNCHANGED << pc, trace_nodes >>

\* a task of the bull/bear superstep raised: the run ends with the error
TaskRaised(error) ==
    /\ pc' = error
    /\ todo' = {}
    /\ UNCHANGED trace_nodes

bull_node_on(answer) ==
    /\ pc = "parallel"
    /\ "bull" \in todo
    /\ IF ~_debate_enabled(config, divergence_report) THEN
           /\ TaskReturned("bull")
           /\ UNCHANGED << bull_case, llm_calls >>
       ELSE IF IsNone(fundamentals_snapshot) \/ IsNone(llm_client) THEN
           /\ TaskRaised("RuntimeError")
           /\ UNCHANGED << bull_case, llm_calls >>
       ELSE
           /\ TaskReturned("bull")
           /\ llm_calls' = [llm_calls EXCEPT !.bull = @ + 1]
           /\ bull_case' = IF answer.kind = "payload" THEN answer.payload
                           ELSE Some(BullFallback)
    /\ UNCHANGED << config, llm_client, fundamentals_snapshot, fundamentals_report,
                    det_fundamentals, llm_fundamentals, agentic_fundamentals,
                    agentic_result, agentic_tool_history, divergence_report,
                    bear_case, debate_summary, final_fundamentals, loop >>

bull_node ==
    /\ \E answer \in SideAnswers : bull_node_on(answer)
    /\ UNCHANGED h

bear_node_on(answer) ==
    /\ pc = "parallel"
    /\ "bear" \in todo
    /\ IF ~_debate_enabled(config, divergence_report) THEN
           /\ TaskReturned("bear")
           /\ UNCHANGED << bear_case, llm_calls >>
       ELSE IF IsNone(fundamentals_snapshot) \/ IsNone(llm_client) THEN
           /\ TaskRaised("RuntimeError")
           /\ UNCHANGED << bear_case, llm_calls >>
       ELSE
           /\ TaskReturned("bear")
           /\ llm_calls' = [llm_calls EXCEPT !.bear = @ + 1]
           /\ bear_case' = IF answer.kind = "payload" THEN answer.payload
                           ELSE Some(BearFallback)
    /\ UNCHANGED << config, llm_client, fundamentals_snapshot, fundamentals_report,
                    det_fundamentals, llm_fundamentals, agentic_fundamentals,
                    agentic_result, agentic_tool_history, divergence_report,
                    bull_case, debate_summary, final_fundamentals, loop >>

bear_node ==
    /\ \E answer \in SideAnswers : bear_node_on(answer)
    /\ UNCHANGED h

debate_node_on(answer) ==
    /\ pc = "debate"
    /\ IF ~_debate_enabled(config, divergence_report) \/ ~IsNone(debate_summary) THEN
           /\ pc' = "fund_resolve"
           /\ Traced("debate")
           /\ UNCHANGED << debate_summary, llm_calls >>
       ELSE IF IsNone(fundamentals_snapshot) \/ IsNone(llm_client) THEN
           /\ pc' = "RuntimeError"
           /\ UNCHANGED << debate_summary, llm_calls, trace_nodes >>
       ELSE IF IsNone(bull_case) \/ IsNone(bear_case) THEN
           /\ pc' = "fund_resolve"
           /\ Traced("debate")
           /\ debate_summary' = Some(DebateSkipped(bull_case, bear_case))
           /\ UNCHANGED llm_calls
       ELSE
           /\ pc' = "fund_resolve"
           /\ Traced("debate")
           /\ llm_calls' = [llm_calls EXCEPT !.debate = @ + 1]
           /\ debate_summary' =
                 IF answer.kind = "payload" THEN answer.payload
                 ELSE Some(DebateFallback(Get(bull_case), Get(bear_case)))
    /\ UNCHANGED << todo, config, llm_client, fundamentals_snapshot, fundamentals_report,
                    det_fundamentals, llm_fundamentals, agentic_fundamentals,
                    agentic_result, agentic_tool_history, divergence_report,
                    bull_case, bear_case, final_fundamentals, loop >>

debate_node ==
    /\ \E answer \in DebateTurnAnswers : debate_node_on(answer)
    /\ UNCHANGED h

\* a faulty resolver node: it decides again on every call
fundamentals_resolver_node_again(at) ==
    /\ pc = at
    /\ LET decision == resolve_final_fundamentals(
                           Mode, det_fundamentals, llm_fundamentals,
                           agentic_fundamentals, divergence_report,
                           ResolverForceDebate(config))
       IN  IF IsNone(decision) THEN
               /\ pc' = "RuntimeError"
               /\ UNCHANGED << final_fundamentals, trace_nodes >>
           ELSE
               /\ pc' = "proposal"
               /\ Traced("fund_resolve")
               /\ final_fundamentals' = decision
    /\ UNCHANGED << todo, config, llm_client, fundamentals_snapshot, fundamentals_report,
                    det_fundamentals, llm_fundamentals, agentic_fundamentals,
                    agentic_result, agentic_tool_history, divergence_report,
                    bull_case, bear_case, debate_summary, loop, llm_calls >>

\* fundamentals_resolver_node called at this position of the run
fundamentals_resolver_node_from(at) ==
    /\ pc = at
    /\ IF ~IsNone(final_fundamentals) THEN
           /\ pc' = "proposal"
           /\ Traced("fund_resolve")
           /\ UNCHANGED final_fundamentals
       ELSE
           LET decision == resolve_final_fundamentals(
                               Mode, det_fundamentals, llm_fundamentals,
                               agentic_fundamentals, divergence_report,
                               ResolverForceDebate(config))
           IN  IF IsNone(decision) THEN
                   /\ pc' = "RuntimeError"
                   /\ UNCHANGED << final_fundamentals, trace_nodes >>
               ELSE
                   /\ pc' = "proposal"
                   /\ Traced("fund_resolve")
                   /\ final_fundamentals' = decision
    /\ UNCHANGED << todo, config, llm_client, fundamentals_snapshot, fundamentals_report,
                    det_fundamentals, llm_fundamentals, agentic_fundamentals,
                    agentic_result, agentic_tool_history, divergence_report,
                    bull_case, bear_case, debate_summary, loop, llm_calls >>

fundamentals_resolver_node ==
    /\ fundamentals_resolver_node_from("fund_resolve")
    /\ UNCHANGED h

\* a faulty patch: the action is derived again whether or not one is set
PatchReportRecomputing(rep, cfg, appendix) ==
    LET decision == decide_trade_action(rep.stance, rep.covered_call_bias,
                                        rep.confidence, _min_conf(cfg))
        r1 == [rep EXCEPT !.action = Some(decision.action),
                          !.action_reason = Some(decision.reason)]
    IN  IF IsNone(rep.appendix) /\ ~IsNone(appendix)
        THEN [r1 EXCEPT !.appendix = appendix]
        ELSE r1

\* the report proposal_node returns for a report that exists already
PatchReport(rep, cfg, appendix) ==
    LET decision == decide_trade_action(rep.stance, rep.covered_call_bias,
                                        rep.confidence, _min_conf(cfg))
        r1 == IF IsNone(rep.action)
              THEN [rep EXCEPT !.action = Some(decision.action),
                               !.action_reason = Some(decision.reason)]
              ELSE rep
    IN  IF IsNone(rep.appendix) /\ ~IsNone(appendix)
        THEN [r1 EXCEPT !.appendix = appendix]
        ELSE r1

\* a faulty choice of the Report's View: the LLM View first
ReportViewLlmFirst(final, llm, det) ==
    IF ~IsNone(llm) THEN Get(llm)
    ELSE IF ~IsNone(final) THEN Get(final)
    ELSE Get(det)

\* the first of final decision, LLM View and deterministic View that is present
ReportView(final, llm, det) ==
    IF ~IsNone(final) THEN Get(final)
    ELSE IF ~IsNone(llm) THEN Get(llm)
    ELSE Get(det)

\* key points of a created report: the view's own, else the deterministic
\* View's, else lines synthesized from the snapshot; at most four
ReportKeyPoints(view, det) ==
    LET own == IF "key_points" \in DOMAIN view THEN view.key_points ELSE << >>
        det_kp == IF IsNone(det) THEN << >> ELSE Get(det).key_points
    IN  Take(IF own # << >> THEN own
             ELSE IF det_kp # << >> THEN det_kp
             ELSE << "Revenue growth YoY", "Operating margin", "Debt-to-equity",
                     "Divergence detected: see appendix for LLM debate summary." >>, 4)

\* a faulty report: the trade action is left unset
CreateReportWithoutAction(final, llm, det, cfg, appendix) ==
    LET view == ReportView(final, llm, det)
    IN  [ stance |-> view.stance,
          covered_call_bias |-> view.covered_call_bias,
          confidence |-> view.confidence,
          key_points |-> ReportKeyPoints(view, det),
          risks |-> IF "risks" \in DOMAIN view THEN view.risks ELSE << >>,
          action |-> None,
          action_reason |-> None,
          appendix |-> appendix ]

\* the report proposal_node creates when none exists
CreateReport(final, llm, det, cfg, appendix) ==
    LET view == ReportView(final, llm, det)
        decision == decide_trade_action(view.stance, view.covered_call_bias,
                                        view.confidence, _min_conf(cfg))
    IN  [ stance |-> view.stance,
          covered_call_bias |-> view.covered_call_bias,
          confidence |-> view.confidence,
          key_points |-> ReportKeyPoints(view, det),
          risks |-> IF "risks" \in DOMAIN view THEN view.risks ELSE << >>,
          action |-> Some(decision.action),
          action_reason |-> Some(decision.reason),
          appendix |-> appendix ]

\* proposal_node called at this position of the run
proposal_node_from(at) ==
    /\ pc = at
    /\ LET appendix == build_appendix(divergence_report, agentic_fundamentals,
                                      agentic_result, debate_summary)
       IN  IF ~IsNone(fundamentals_report) THEN
               /\ fundamentals_report' =
                     Some(PatchReport(Get(fundamentals_report), config, appendix))
               /\ pc' = "END"
               /\ Traced("proposal")
           ELSE IF IsNone(final_fundamentals) /\ IsNone(llm_fundamentals)
                   /\ IsNone(det_fundamentals) THEN
               /\ pc' = "RuntimeError"
               /\ UNCHANGED << fundamentals_report, trace_nodes >>
           ELSE IF IsNone(fundamentals_snapshot) THEN
               /\ pc' = "RuntimeError"
               /\ UNCHANGED << fundamentals_report, trace_nodes >>
           ELSE
               /\ fundamentals_report' =
                     Some(CreateReport(final_fundamentals, llm_fundamentals,
                                       det_fundamentals, config, appendix))
               /\ pc' = "END"
               /\ Traced("proposal")
    /\ UNCHANGED << todo, config, llm_client, fundamentals_snapshot, det_fundamentals,
                    llm_fundamentals, agentic_fundamentals, agentic_result,
                    agentic_tool_history, divergence_report, bull_case, bear_case,
                    debate_summary, final_fundamentals, loop, llm_calls >>

proposal_node ==
    /\ proposal_node_from("proposal")
    /\ UNCHANGED h

Next ==
    \/ propagate
    \/ fundamental_node
    \/ det_node
    \/ llm_node
    \/ agentic_node
    \/ divergence_node
    \/ fanout_llm_node
    \/ bull_node
    \/ bear_node
    \/ debate_node
    \/ fundamentals_resolver_node
    \/ proposal_node

Spec == Init /\ [][Next]_vars

\* LangGraph runs every scheduled node: a run that can take a step takes one
FairSpec == Spec /\ WF_vars(Next)

-----------------------------------------------------------------------------
(* Direct calls of the pure policies.  h holds the arguments of one call   *)
(* and, once the call was made, its result; the graph state stays idle.    *)

Idle ==
    /\ pc = "CALL"
    /\ todo = {}
    /\ config = DEFAULT_CONFIG
    /\ llm_client = None
    /\ fundamentals_snapshot = None
    /\ fundamentals_report = None
    /\ det_fundamentals = None
    /\ llm_fundamentals = None
    /\ agentic_fundamentals = None
    /\ agentic_result = None
    /\ agentic_tool_history = << >>
    /\ divergence_report = None
    /\ bull_case = None
    /\ bear_case = None
    /\ debate_summary = None
    /\ final_fundamentals = None
    /\ trace_nodes = << >>
    /\ loop = LoopInit
    /\ llm_calls = NoCalls

View(stance, bias, confidence) ==
    [ stance |-> stance, covered_call_bias |-> bias, confidence |-> confidence,
      key_points |-> << >>, risks |-> << >> ]

\* arguments resolve_final_fundamentals is called with
ResolveDetViews == { None, Some(View("BULLISH", "UPSIDE", 80)) }

ResolveLlmViews ==
    { None, Some(View("BEARISH", "CAUTION", 72)), Some(View("NEUTRAL", "INCOME", 60)) }

ResolveAgenticViews == { None, Some(View("NEUTRAL", "UPSIDE", 33)) }

ResolveReports ==
    { None } \cup { Some([MissingInputsReport EXCEPT !.severity = sev, !.notes = None])
                    : sev \in DivergenceSeverity }

ResolveInit ==
    /\ Idle
    /\ h \in [ mode : FundamentalsMode,
               det : ResolveDetViews,
               llm : ResolveLlmViews,
               agentic : ResolveAgenticViews,
               divergence_report : ResolveReports,
               force_debate : BOOLEAN,
               called : {FALSE},
               result : {None} ]

CallResolve ==
    /\ ~h.called
    /\ h' = [ h EXCEPT !.called = TRUE,
                       !.result = resolve_final_fundamentals(
                                      h.mode, h.det, h.llm, h.agentic,
                                      h.divergence_report, h.force_debate) ]
    /\ UNCHANGED graphVars

ResolveSpec == ResolveInit /\ [][CallResolve]_vars

\* arguments decide_trade_action is called with; no min_confidence is the default
PolicyConfidences == {0, 30, 54, 55, 56, 89, 90, 100}

PolicyInit ==
    /\ Idle
    /\ h \in [ stance : Stance,
               bias : CoveredCallBias,
               confidence : PolicyConfidences,
               min_confidence : {None} \cup {Some(m) : m \in {30, 90}},
               called : {FALSE},
               result : {None} ]

CallPolicy ==
    /\ ~h.called
    /\ h' = [ h EXCEPT !.called = TRUE,
                       !.result = Some(decide_trade_action(
                                      h.stance, h.bias, h.confidence,
                                      IF IsNone(h.min_confidence) THEN DefaultMinConfidence
                                      ELSE Get(h.min_confidence))) ]
    /\ UNCHANGED graphVars

PolicySpec == PolicyInit /\ [][CallPolicy]_vars

\* confidences compute_divergence is called with (hundredths); on these the
\* double computation and the exact one give the same score and band
DivergenceConfidences == {0, 25, 50, 75, 100}

DivergenceViews ==
    { View(s, b, c) : s \in Stance, b \in CoveredCallBias, c \in DivergenceConfidences }

DivergenceInit ==
    /\ Idle
    /\ h \in [ det : DivergenceViews,
               cmp : DivergenceViews,
               called : {FALSE},
               result : {None} ]

CallDivergence ==
    /\ ~h.called
    /\ h' = [ h EXCEPT !.called = TRUE,
                       !.result = Some(compute_divergence(h.det, h.cmp)) ]
    /\ UNCHANGED graphVars

DivergenceSpec == DivergenceInit /\ [][CallDivergence]_vars

\* Direct calls of llm_node on a state as fundamental_node leaves it in LLM
\* mode, with or without an llm View already in it; h keeps the llm View the
\* node was called with and, once it returned, what the backend answered.
LlmNodePriorViews == { None, Some(View("BULLISH", "UPSIDE", 92)) }

LlmNodeInit ==
    /\ pc = "llm"
    /\ todo = {}
    /\ config = [DEFAULT_CONFIG EXCEPT !.f_mode = Some("llm")]
    /\ llm_client = ClientOf(config.llm_provider)
    /\ \E snap \in Snapshots :
          /\ fundamentals_snapshot = Some(snap)
          /\ det_fundamentals = Some(DetView(snap))
    /\ fundamentals_report = None
    /\ llm_fundamentals \in LlmNodePriorViews
    /\ agentic_fundamentals = None
    /\ agentic_result = None
    /\ agentic_tool_history = << >>
    /\ divergence_report = None
    /\ bull_case = None
    /\ bear_case = None
    /\ debate_summary = None
    /\ final_fundamentals = None
    /\ trace_nodes = << "fundamental" >>
    /\ loop = LoopInit
    /\ llm_calls = NoCalls
    /\ h = [ prior |-> llm_fundamentals, returned |-> FALSE, answer |-> None ]

CallLlmNode ==
    \E answer \in LLMAnswers :
       /\ llm_node_on(answer)
       /\ h' = [ h EXCEPT !.returned = TRUE,
                          !.answer = IF llm_calls'.llm > llm_calls.llm THEN Some(answer)
                                     ELSE None ]

LlmNodeSpec == LlmNodeInit /\ [][CallLlmNode]_vars

\* Direct calls of proposal_node, twice in a row, on the state at the end of
\* a run with or without a Report in it.  h counts the calls and keeps the
\* Report each call was made on.
ProposalPriorReports(snap) ==
    { None } \cup
    { Some([DetReport(snap) EXCEPT !.action = IF keep THEN @ ELSE None,
                                   !.action_reason = IF keep THEN @ ELSE None,
                                   !.appendix = appendix])
      : keep \in BOOLEAN, appendix \in { None, Some(<< "DIVERGENCE REPORT" >>) } }

ProposalInit ==
    /\ pc = "proposal"
    /\ todo = {}
    /\ config \in { [DEFAULT_CONFIG EXCEPT !.f_mode = Some("llm"), !.min_confidence = m]
                    : m \in { None } \cup { Some(c) : c \in MinConfVals } }
    /\ llm_client = ClientOf(config.llm_provider)
    /\ \E snap \in Snapshots :
          /\ fundamentals_snapshot = Some(snap)
          /\ det_fundamentals = Some(DetView(snap))
          /\ fundamentals_report \in ProposalPriorReports(snap)
    /\ llm_fundamentals \in { None, Some(View("BEARISH", "CAUTION", 72)) }
    /\ divergence_report =
          IF IsNone(llm_fundamentals) THEN Some(MissingInputsReport)
          ELSE Some(compute_divergence(Get(det_fundamentals), Get(llm_fundamentals)))
    /\ final_fundamentals = Some(_mk("deterministic", Get(det_fundamentals), "fallback"))
    /\ \/ bull_case = None /\ bear_case = None /\ debate_summary = None
       \/ /\ bull_case = Some(BullFallback)
          /\ bear_case = Some(BearFallback)
          /\ debate_summary = Some(DebateFallback(BullFallback, BearFallback))
    /\ agentic_fundamentals = None
    /\ agentic_result = None
    /\ agentic_tool_history = << >>
    /\ trace_nodes = << >>
    /\ loop = LoopInit
    /\ llm_calls = NoCalls
    /\ h = [ calls |-> 0, on |-> << >> ]

CallProposal ==
    /\ h.calls < 2
    /\ proposal_node_from(pc)
    /\ h' = [ calls |-> h.calls + 1, on |-> Append(h.on, fundamentals_report) ]

ProposalSpec == ProposalInit /\ [][CallProposal]_vars

\* Runs of propagate on configurations that may name no known mode or no
\* usable LLM provider.  "" is a configuration without the key llm.provider.
PropagateModes == {"deterministic", " LLM ", "bogus"}

PropagateProviders == {"ollama", "none", "", "bedrock"}

PropagateConfigs ==
    [ f_mode : { None } \cup { Some(m) : m \in PropagateModes },
      mode : { None, Some("llm_agentic"), Some("turbo") },
      f_force_debate : { FALSE },
      force_debate : { FALSE },
      min_confidence : { None },
      llm_provider : PropagateProviders ]

PropagateInit ==
    /\ pc = "START"
    /\ todo = {}
    /\ config \in PropagateConfigs
    /\ llm_client = None
    /\ fundamentals_snapshot = None
    /\ fundamentals_report = None
    /\ det_fundamentals = None
    /\ llm_fundamentals = None
    /\ agentic_fundamentals = None
    /\ agentic_result = None
    /\ agentic_tool_history = << >>
    /\ divergence_report = None
    /\ bull_case = None
    /\ bear_case = None
    /\ debate_summary = None
    /\ final_fundamentals = None
    /\ trace_nodes = << >>
    /\ loop = LoopInit
    /\ llm_calls = NoCalls
    /\ h = None

PropagateSpec == PropagateInit /\ [][Next]_vars

\* Direct calls of fundamental_node on any snapshot: each fundamental present
\* or not, on either side of its thresholds, up to DetMaxMissing entries in
\* quality.missing_fields and up to three warnings.
DetMaxMissing == 6

DetSnapshots ==
    [ growth : { None, Some(-3), Some(2), Some(12) },
      opm : { None, Some(3), Some(7), Some(30) },
      d2e : { None, Some(150), Some(250) },
      missing : 0 .. DetMaxMissing,
      warnings : { << >>, << "stale data" >>, << "stale data", "stub", "partial" >> } ]

DetInit ==
    /\ pc = "fundamental"
    /\ todo = {}
    /\ config \in { [DEFAULT_CONFIG EXCEPT !.f_mode = m]
                    : m \in { None, Some("llm") } }
    /\ llm_client = IF Mode = "llm" THEN ClientOf(config.llm_provider) ELSE None
    /\ fundamentals_snapshot = None
    /\ fundamentals_report = None
    /\ det_fundamentals = None
    /\ llm_fundamentals = None
    /\ agentic_fundamentals = None
    /\ agentic_result = None
    /\ agentic_tool_history = << >>
    /\ divergence_report = None
    /\ bull_case = None
    /\ bear_case = None
    /\ debate_summary = None
    /\ final_fundamentals = None
    /\ trace_nodes = << >>
    /\ loop = LoopInit
    /\ llm_calls = NoCalls
    /\ h \in [ snap : DetSnapshots ]

CallFundamental ==
    /\ fundamental_node_on(h.snap)
    /\ UNCHANGED h

DetSpec == DetInit /\ [][CallFundamental]_vars

-----------------------------------------------------------------------------
(* agentic_node entered after fundamental_node, observed turn by turn *)

AgenticLoopInit ==
    /\ pc = "agentic"
    /\ todo = {}
    /\ config = [DEFAULT_CONFIG EXCEPT !.f_mode = Some("agentic")]
    /\ llm_client = ClientOf(config.llm_provider)
    /\ \E snap \in Snapshots :
          /\ fundamentals_snapshot = Some(snap)
          /\ det_fundamentals = Some(DetView(snap))
    /\ fundamentals_report = None
    /\ llm_fundamentals = None
    /\ agentic_fundamentals = None
    /\ agentic_result = None
    /\ agentic_tool_history = << >>
    /\ divergence_report = None
    /\ bull_case = None
    /\ bear_case = None
    /\ debate_summary = None
    /\ final_fundamentals = None
    /\ trace_nodes = << "fundamental" >>
    /\ loop = LoopInit
    /\ llm_calls = NoCalls
    /\ h = [ called |-> FALSE, before |-> loop, answer |-> None, answers |-> << >> ]

\* one backend call of the loop; h keeps the answer and the locals it met
CallAgenticTurn ==
    /\ pc = "agentic"
    /\ \E answer \in BackendTurns :
          /\ agentic_node_on(answer)
          /\ h' = [ called |-> TRUE, before |-> loop, answer |-> Some(answer),
                    answers |-> Append(h.answers, answer) ]
    /\ agentic_node_keeps

AgenticLoopSpec == AgenticLoopInit /\ [][CallAgenticTurn]_vars

-----------------------------------------------------------------------------
(* divergence_node called on states with and without its input Views *)

DivergenceNodeViews ==
    { None, Some(View("BULLISH", "UPSIDE", 92)), Some(View("BEARISH", "CAUTION", 33)),
      Some(View("NEUTRAL", "INCOME", 72)) }

DivergenceNodeInit ==
    /\ pc = "divergence"
    /\ todo = {}
    /\ config \in { [DEFAULT_CONFIG EXCEPT !.f_mode = m]
                    : m \in { Some("llm"), Some("agentic") } }
    /\ llm_client = ClientOf(config.llm_provider)
    /\ fundamentals_snapshot = None
    /\ fundamentals_report = None
    /\ det_fundamentals \in DivergenceNodeViews
    /\ llm_fundamentals \in DivergenceNodeViews
    /\ agentic_fundamentals \in DivergenceNodeViews
    /\ agentic_result = None
    /\ agentic_tool_history = << >>
    /\ divergence_report = None
    /\ bull_case = None
    /\ bear_case = None
    /\ debate_summary = None
    /\ final_fundamentals = None
    /\ trace_nodes = << >>
    /\ loop = LoopInit
    /\ llm_calls = NoCalls
    /\ h = None

DivergenceNodeSpec == DivergenceNodeInit /\ [][divergence_node]_vars

-----------------------------------------------------------------------------
(* bull_node, bear_node and debate_node after fanout_llm, each backend answer observed *)

DebateLlmViews == { View("BULLISH", "UPSIDE", 72), View("BEARISH", "CAUTION", 33) }

DebateInit ==
    /\ pc = "parallel"
    /\ todo = {"bull", "bear"}
    /\ config \in { [DEFAULT_CONFIG EXCEPT !.f_mode = Some("llm"), !.f_force_debate = f]
                    : f \in BOOLEAN }
    /\ llm_client = ClientOf(config.llm_provider)
    /\ \E snap \in Snapshots :
          /\ fundamentals_snapshot = Some(snap)
          /\ det_fundamentals = Some(DetView(snap))
    /\ fundamentals_report = None
    /\ llm_fundamentals \in { Some(v) : v \in DebateLlmViews }
    /\ agentic_fundamentals = None
    /\ agentic_result = None
    /\ agentic_tool_history = << >>
    /\ divergence_report = Some(DivergenceOf(det_fundamentals, None, llm_fundamentals))
    /\ bull_case = None
    /\ bear_case = None
    /\ debate_summary = None
    /\ final_fundamentals = None
    /\ trace_nodes = << "fundamental", "llm", "divergence", "fanout_llm" >>
    /\ loop = LoopInit
    /\ llm_calls = [NoCalls EXCEPT !.llm = 1]
    /\ h = [ bull |-> None, bear |-> None, debate |-> None ]

\* h keeps the backend's answer to each call that was made
CallBull ==
    \E answer \in SideAnswers :
       /\ bull_node_on(answer)
       /\ h' = [ h EXCEPT !.bull = IF llm_calls'.bull > llm_calls.bull THEN Some(answer)
                                   ELSE None ]

CallBear ==
    \E answer \in SideAnswers :
       /\ bear_node_on(answer)
       /\ h' = [ h EXCEPT !.bear = IF llm_calls'.bear > llm_calls.bear THEN Some(answer)
                                   ELSE None ]

CallDebate ==
    \E answer \in DebateTurnAnswers :
       /\ debate_node_on(answer)
       /\ h' = [ h EXCEPT !.debate = IF llm_calls'.debate > llm_calls.debate
                                     THEN Some(answer) ELSE None ]

DebateSpec == DebateInit /\ [][CallBull \/ CallBear \/ CallDebate]_vars

-----------------------------------------------------------------------------
(* fundamentals_resolver_node called again, beside the runs of the graph *)

ResolverNodeInit ==
    /\ pc = "fund_resolve"
    /\ todo = {}
    /\ config \in { [DEFAULT_CONFIG EXCEPT !.f_mode = m] : m \in { None, Some("llm") } }
    /\ llm_client = IF Mode = "llm" THEN ClientOf(config.llm_provider) ELSE None
    /\ \E snap \in Snapshots :
          /\ fundamentals_snapshot = Some(snap)
          /\ det_fundamentals = Some(DetView(snap))
          /\ fundamentals_report = IF Mode = "llm" THEN None ELSE Some(DetReport(snap))
    /\ llm_fundamentals = IF Mode = "llm" THEN Some(View("BEARISH", "CAUTION", 72)) ELSE None
    /\ divergence_report =
          IF Mode = "llm"
          THEN Some(compute_divergence(Get(det_fundamentals), Get(llm_fundamentals)))
          ELSE None
    /\ final_fundamentals \in
          { None, Some(_mk("llm", View("NEUTRAL", "INCOME", 33), "decided earlier")) }
    /\ bull_case = None
    /\ bear_case = None
    /\ debate_summary = None
    /\ agentic_fundamentals = None
    /\ agentic_result = None
    /\ agentic_tool_history = << >>
    /\ trace_nodes = << >>
    /\ loop = LoopInit
    /\ llm_calls = NoCalls
    /\ h = [ calls |-> 0, before |-> None ]

\* one more call of the node wherever the run is; h keeps the decision it met
CallResolver ==
    /\ h # None
    /\ h.calls < 2
    /\ pc \notin Errors
    /\ fundamentals_resolver_node_from(pc)
    /\ h' = [ calls |-> h.calls + 1, before |-> final_fundamentals ]

ResolverNodeSpec == (Init \/ ResolverNodeInit) /\ [][Next \/ CallResolver]_vars

-----------------------------------------------------------------------------
(* whole runs with the answer of llm_node's backend call observed *)

LlmRunInit ==
    /\ pc = "START"
    /\ todo = {}
    /\ config \in Configs
    /\ llm_client = None
    /\ fundamentals_snapshot = None
    /\ fundamentals_report = None
    /\ det_fundamentals = None
    /\ llm_fundamentals = None
    /\ agentic_fundamentals = None
    /\ agentic_result = None
    /\ agentic_tool_history = << >>
    /\ divergence_report = None
    /\ bull_case = None
    /\ bear_case = None
    /\ debate_summary = None
    /\ final_fundamentals = None
    /\ trace_nodes = << >>
    /\ loop = LoopInit
    /\ llm_calls = NoCalls
    /\ h = [ prior |-> None, returned |-> FALSE, answer |-> None ]

LlmRunSpec ==
    LlmRunInit /\ [][ \/ propagate
                      \/ fundamental_node
                      \/ det_node
                      \/ CallLlmNode
                      \/ agentic_node
                      \/ divergence_node
                      \/ fanout_llm_node
                      \/ bull_node
                      \/ bear_node
                      \/ debate_node
                      \/ fundamentals_resolver_node
                      \/ proposal_node ]_vars

-----------------------------------------------------------------------------
(* Properties *)

Report == Get(fundamentals_report)

\* the final Report carries stance, bias, confidence, action and action_reason
ReportComplete ==
    /\ ~IsNone(fundamentals_report)
    /\ Report.stance \in Stance
    /\ Report.covered_call_bias \in CoveredCallBias
    /\ Report.confidence \in 0 .. 100
    /\ ~IsNone(Report.action)
    /\ Get(Report.action) \in TradeAction
    /\ ~IsNone(Report.action_reason)

\* C1: in every completed run, whatever the mode and the configured
\* trade_policy.min_confidence, the action of the final Report is the
\* Trade-Action Policy applied to the Report's own stance, bias and confidence
\* with the configured min_confidence.
C1_ActionFollowsConfiguredPolicy ==
    pc = "END" =>
        Report.action = Some(decide_trade_action(Report.stance, Report.covered_call_bias,
                                                 Report.confidence, _min_conf(config)).action)

\* C2: a run that propagate started (valid configuration, the provider
\* returned a snapshot) reaches End with a complete Report, whatever the mode
\* and whichever of the llm, agentic, bull, bear and debate calls fail; no such
\* failure ends the run with an error.
C2_RunCompletes == (pc = "fundamental") ~> (pc = "END" /\ ReportComplete)

\* a completed agentic run in which every backend call failed
C2_Witness ==
    /\ pc = "END"
    /\ ReportComplete
    /\ Mode = "agentic"
    /\ agentic_result = Some(FallbackResponse(Some("LLM error")))
    /\ bull_case = Some(BullFallback)
    /\ bear_case = Some(BearFallback)
    /\ debate_summary = Some(DebateFallback(BullFallback, BearFallback))

\* the result of a resolver call is a decision for this source with the values of this View
DecisionIs(result, source, view) ==
    /\ ~IsNone(result)
    /\ Get(result).source = source
    /\ Get(result).stance = Get(view).stance
    /\ Get(result).covered_call_bias = Get(view).covered_call_bias
    /\ Get(result).confidence = Get(view).confidence

\* the severity a resolver call is given is one of these
SeverityIn(severities) ==
    /\ ~IsNone(h.divergence_report)
    /\ Get(h.divergence_report).severity \in severities

\* C3: in AGENTIC mode with an agentic View present the decision is the
\* agentic View with source agentic, for every severity (and no report), every
\* force_debate and every det/llm View.
C3_AgenticWins ==
    (h.called /\ h.mode = "agentic" /\ ~IsNone(h.agentic))
        => DecisionIs(h.result, "agentic", h.agentic)

C3_Witness ==
    /\ h.called
    /\ h.mode = "agentic"
    /\ SeverityIn({"ALIGNED"})
    /\ h.force_debate
    /\ ~IsNone(h.det)
    /\ ~IsNone(h.llm)
    /\ DecisionIs(h.result, "agentic", h.agentic)

\* C4: when the agentic rule does not apply, the severity is ALIGNED or MINOR
\* and a deterministic View is present, the decision is the deterministic View
\* with source deterministic, even with force_debate and an llm View.
C4_AlignedPrefersDeterministic ==
    ( /\ h.called
      /\ ~(h.mode = "agentic" /\ ~IsNone(h.agentic))
      /\ SeverityIn({"ALIGNED", "MINOR"})
      /\ ~IsNone(h.det) )
        => DecisionIs(h.result, "deterministic", h.det)

C4_Witness ==
    /\ h.called
    /\ h.mode = "llm"
    /\ SeverityIn({"ALIGNED"})
    /\ h.force_debate
    /\ ~IsNone(h.llm)
    /\ DecisionIs(h.result, "deterministic", h.det)

\* C5: in LLM mode with a deterministic and an llm View and severity MAJOR or
\* CRITICAL, force_debate gives the llm View with source llm, and the same
\* call without force_debate the deterministic View with source deterministic.
C5_ForceDebateDecides ==
    ( /\ h.called
      /\ h.mode = "llm"
      /\ ~IsNone(h.det)
      /\ ~IsNone(h.llm)
      /\ SeverityIn({"MAJOR", "CRITICAL"}) )
        => IF h.force_debate THEN DecisionIs(h.result, "llm", h.llm)
           ELSE DecisionIs(h.result, "deterministic", h.det)

C5_Witness ==
    /\ h.called
    /\ h.mode = "llm"
    /\ SeverityIn({"MAJOR"})
    /\ h.force_debate
    /\ ~IsNone(h.det)
    /\ DecisionIs(h.result, "llm", h.llm)

\* no rule before the fallback applies to a resolver call
NoEarlierRule ==
    /\ ~(h.mode = "agentic" /\ ~IsNone(h.agentic))
    /\ ~(SeverityIn({"ALIGNED", "MINOR"}) /\ ~IsNone(h.det))
    /\ ~(h.force_debate /\ ~IsNone(h.llm))

\* C6: when no earlier rule applies the winner is the first View present in
\* the order deterministic, llm, agentic; the call raises exactly when all
\* three Views are absent and returns one decision otherwise.
C6_FallbackOrder ==
    h.called =>
        /\ IsNone(h.result) <=> (IsNone(h.det) /\ IsNone(h.llm) /\ IsNone(h.agentic))
        /\ Len(h.result) <= 1
        /\ NoEarlierRule =>
              IF ~IsNone(h.det) THEN DecisionIs(h.result, "deterministic", h.det)
              ELSE IF ~IsNone(h.llm) THEN DecisionIs(h.result, "llm", h.llm)
              ELSE IF ~IsNone(h.agentic) THEN DecisionIs(h.result, "agentic", h.agentic)
              ELSE IsNone(h.result)

C6_Witness ==
    /\ h.called
    /\ NoEarlierRule
    /\ IsNone(h.det)
    /\ IsNone(h.llm)
    /\ h.mode = "llm"
    /\ DecisionIs(h.result, "agentic", h.agentic)

\* an Optional View holds a View with a stance, a bias and a confidence in [0, 1]
ValidView(view) ==
    /\ ~IsNone(view)
    /\ Get(view).stance \in Stance
    /\ Get(view).covered_call_bias \in CoveredCallBias
    /\ Get(view).confidence \in 0 .. 100

\* C7: one invocation of the agentic loop makes at most 3 backend calls and
\* at most 2 tool dispatches whatever the backend answers, it terminates, and
\* it returns an update with a valid View without raising.
C7_AgenticLoopBounded ==
    /\ [](llm_calls.agentic <= 3 /\ llm_calls.tools <= 2)
    /\ []("agentic" \in {trace_nodes[i] : i \in 1 .. Len(trace_nodes)}
            => /\ ValidView(agentic_fundamentals)
               /\ llm_fundamentals = agentic_fundamentals
               /\ ~IsNone(agentic_result)
               /\ Len(agentic_tool_history) = llm_calls.tools)
    /\ (pc = "agentic") ~> (pc = "divergence" /\ ValidView(agentic_fundamentals))

\* the loop used its three calls and its two dispatches and ended on the limit
C7_Witness ==
    /\ pc = "divergence"
    /\ llm_calls.agentic = 3
    /\ llm_calls.tools = 2
    /\ agentic_tool_history[1].ok
    /\ ~agentic_tool_history[2].ok
    /\ agentic_result = Some(FallbackResponse(None))
    /\ ValidView(agentic_fundamentals)

\* the condition the debate gate is specified by, on the state of the run
GateCondition ==
    \/ config.f_force_debate
    \/ /\ ~IsNone(divergence_report)
       /\ Get(divergence_report).severity \in {"MAJOR", "CRITICAL", "EXTREME"}

AllPresent == ~IsNone(bull_case) /\ ~IsNone(bear_case) /\ ~IsNone(debate_summary)

AllAbsent == IsNone(bull_case) /\ IsNone(bear_case) /\ IsNone(debate_summary)

\* the gate fires exactly on force_debate or MAJOR, CRITICAL, EXTREME
GateFiresAsSpecified ==
    /\ _debate_enabled(config, divergence_report) <=> GateCondition
    /\ \A sev \in DivergenceSeverity :
          _debate_enabled(config, Some([MissingInputsReport EXCEPT !.severity = sev]))
              <=> (config.f_force_debate \/ sev \in {"MAJOR", "CRITICAL", "EXTREME"})

\* with the gate off the three nodes change nothing and call no backend
GateOffNoOps ==
    ~GateCondition =>
        /\ AllAbsent
        /\ llm_calls.bull = 0 /\ llm_calls.bear = 0 /\ llm_calls.debate = 0

\* C8 as stated: the gate fires iff force_debate is set or the severity is
\* MAJOR, CRITICAL or EXTREME; with the gate off bull_case, bear_case and
\* debate_summary stay absent; with the gate on all three are present at End.
C8_GateOnAllPresentAtEnd ==
    /\ GateFiresAsSpecified
    /\ GateOffNoOps
    /\ (pc = "END" /\ GateCondition) => AllPresent

\* C8 amended: the gate fires iff force_debate is set or the severity is
\* MAJOR, CRITICAL or EXTREME; with the gate off the three artifacts stay
\* absent; with the gate on they are all present at End of a run in LLM or
\* AGENTIC mode, and a run in deterministic mode, which never visits the
\* debate nodes, ends with all three absent whatever the gate.
C8_GateOnAllPresentAtEndOfLlmRun ==
    /\ GateFiresAsSpecified
    /\ GateOffNoOps
    /\ (pc = "END" /\ GateCondition /\ Mode \in {"llm", "agentic"}) => AllPresent
    /\ Mode = "deterministic" => AllAbsent

\* the gate fired on the severity alone
C8_Witness ==
    /\ pc = "END"
    /\ Mode = "llm"
    /\ ~config.f_force_debate
    /\ Get(divergence_report).severity = "CRITICAL"
    /\ AllPresent
    /\ llm_calls.bull = 1 /\ llm_calls.bear = 1 /\ llm_calls.debate = 1

\* C9: a run whose configuration is the API's for a request with
\* force_debate=true in LLM mode executes the debate, and the appendix of its
\* final Report has the divergence block and the debate summary block, for
\* every divergence severity.
C9_ApiForceDebateRunsDebate ==
    ( /\ pc = "END"
      /\ config = apply_engine_overrides_from_request(DEFAULT_CONFIG, Some("llm"), Some(TRUE)) )
        => /\ AllPresent
           /\ HasBlock(Report.appendix, "DIVERGENCE REPORT")
           /\ HasBlock(Report.appendix, "LLM Debate Summary")

\* the stance x bias table as the claim states it
ClaimedAction(stance, bias) ==
    CASE stance = "BULLISH" /\ bias = "UPSIDE" -> "AVOID_CALLS"
      [] stance = "BULLISH" /\ bias = "INCOME" -> "SELL_CALL_MORE_OTM"
      [] stance = "BULLISH" /\ bias = "CAUTION" -> "SELL_CALL_MORE_OTM"
      [] stance = "NEUTRAL" /\ bias = "INCOME" -> "SELL_CALL"
      [] stance = "NEUTRAL" /\ bias = "UPSIDE" -> "HOLD"
      [] stance = "NEUTRAL" /\ bias = "CAUTION" -> "HOLD"
      [] stance = "BEARISH" /\ bias = "INCOME" -> "SELL_CALL"
      [] stance = "BEARISH" /\ bias = "CAUTION" -> "CLOSE_OR_ROLL"
      [] stance = "BEARISH" /\ bias = "UPSIDE" -> "AVOID_CALLS"

\* C10: decide_trade_action returns a decision for every stance, bias,
\* confidence and min_confidence: HOLD when the confidence is below
\* min_confidence (0.55 when none is given), else the action of the fixed
\* table; the reason is never empty.
C10_PolicyTable ==
    h.called =>
        LET decision == Get(h.result)
            min_confidence == IF IsNone(h.min_confidence) THEN 55 ELSE Get(h.min_confidence)
        IN  /\ ~IsNone(h.result)
            /\ decision.action \in TradeAction
            /\ decision.reason # ""
            /\ decision.action = IF h.confidence < min_confidence THEN "HOLD"
                                 ELSE ClaimedAction(h.stance, h.bias)

\* a confidence equal to the default min_confidence passes the gate
C10_Witness ==
    /\ h.called
    /\ IsNone(h.min_confidence)
    /\ h.confidence = 55
    /\ h.stance = "BULLISH"
    /\ h.bias = "UPSIDE"
    /\ Get(h.result).action = "AVOID_CALLS"


\* the components, score and band as the claim states them, on the
\* confidences the two Views carry
ClaimedDivergence(det, cmp) ==
    LET stance_div == (Abs(stance_map(det.stance) - stance_map(cmp.stance)) * 1000) \div 2
        bias_div == (Abs(bias_map(det.covered_call_bias)
                         - bias_map(cmp.covered_call_bias)) * 1000) \div 2
        conf_div == (Min(Abs(det.confidence - cmp.confidence), 50) * 1000) \div 50
        score == Max(0, Min(1000, (450 * stance_div + 300 * bias_div + 250 * conf_div) \div 1000))
    IN  [ stance_divergence |-> stance_div,
          bias_divergence |-> bias_div,
          confidence_divergence |-> conf_div,
          score |-> score,
          severity |-> IF score < 200 THEN "ALIGNED"
                       ELSE IF score < 400 THEN "MINOR"
                       ELSE IF score < 650 THEN "MAJOR"
                       ELSE "CRITICAL" ]

\* C11: for every pair of Views with confidences anywhere in [0, 1], 0.0
\* included, compute_divergence returns stance divergence |ds|/2, bias
\* divergence |db|/2, confidence divergence min(|dc|, 0.5)/0.5, the score
\* 0.45*stance + 0.30*bias + 0.25*confidence clamped to [0, 1], and the band
\* of that score.
C11_DivergenceFormula ==
    h.called =>
        LET r == Get(h.result)
            c == ClaimedDivergence(h.det, h.cmp)
        IN  /\ r.stance_divergence = c.stance_divergence
            /\ r.bias_divergence = c.bias_divergence
            /\ r.confidence_divergence = c.confidence_divergence
            /\ r.score = c.score
            /\ r.severity = c.severity

\* C12: two identical Views give score 0 and ALIGNED; opposite stance,
\* opposite bias and a confidence gap of at least 0.5 give CRITICAL; the
\* score is the same with the two Views swapped and lies in [0, 1].
C12_DivergenceSymmetricBounded ==
    h.called =>
        LET r == Get(h.result)
        IN  /\ h.det = h.cmp => (r.score = 0 /\ r.severity = "ALIGNED")
            /\ ( /\ {h.det.stance, h.cmp.stance} = {"BULLISH", "BEARISH"}
                 /\ {h.det.covered_call_bias, h.cmp.covered_call_bias} = {"UPSIDE", "CAUTION"}
                 /\ Abs(h.det.confidence - h.cmp.confidence) >= 50 )
                   => r.severity = "CRITICAL"
            /\ r.score = compute_divergence(h.cmp, h.det).score
            /\ r.score \in 0 .. 1000

\* a bearish baseline against a bullish View half the scale more confident
C12_Witness ==
    /\ h.called
    /\ h.det = View("BEARISH", "CAUTION", 50)
    /\ h.cmp = View("BULLISH", "UPSIDE", 100)
    /\ Get(h.result).score = 1000
    /\ Get(h.result).severity = "CRITICAL"

\* C13: llm_node does not raise; when its one generate_json call fails in
\* whatever way, the llm View is the deterministic View's stance, bias, key
\* points and risks with confidence min(deterministic confidence, 0.60); it
\* makes exactly one backend call when no llm View exists, and no call, with
\* the View left as it is, when one exists already.
C13_LlmFailureFallsBackToCappedDet ==
    /\ pc \notin Errors
    /\ h.returned =>
          IF IsNone(h.prior) THEN
              /\ llm_calls.llm = 1
              /\ ~IsNone(h.answer)
              /\ Get(h.answer).kind = "failure" =>
                    /\ ~IsNone(llm_fundamentals)
                    /\ Get(llm_fundamentals).stance = Get(det_fundamentals).stance
                    /\ Get(llm_fundamentals).covered_call_bias
                          = Get(det_fundamentals).covered_call_bias
                    /\ Get(llm_fundamentals).key_points = Get(det_fundamentals).key_points
                    /\ Get(llm_fundamentals).risks = Get(det_fundamentals).risks
                    /\ Get(llm_fundamentals).confidence
                          = Min(Get(det_fundamentals).confidence, 60)
          ELSE
              /\ llm_calls.llm = 0
              /\ llm_fundamentals = h.prior

\* the call timed out on a deterministic confidence of 0.80: the cap applies
C13_Witness ==
    /\ h.returned
    /\ IsNone(h.prior)
    /\ ~IsNone(h.answer)
    /\ Get(h.answer).failure = Some("timeout")
    /\ Get(det_fundamentals).confidence = 80
    /\ Get(llm_fundamentals).confidence = 60
    /\ Get(llm_fundamentals).stance = Get(det_fundamentals).stance
    /\ llm_calls.llm = 1

\* every field of this Report that is populated has the same value in the other
KeepsPopulated(before, after) ==
    /\ after.stance = before.stance
    /\ after.covered_call_bias = before.covered_call_bias
    /\ after.confidence = before.confidence
    /\ after.key_points = before.key_points
    /\ after.risks = before.risks
    /\ ~IsNone(before.action) => after.action = before.action
    /\ ~IsNone(before.appendix) => after.appendix = before.appendix

\* C14: proposal_node on a Report with action and appendix set changes
\* nothing; a second application after a first leaves the Report as the first
\* left it; a patch fills only a missing action/action_reason or appendix and
\* changes no populated field.
C14_ProposalIdempotent ==
    /\ pc \notin Errors
    /\ h.calls >= 1 =>
          /\ ~IsNone(fundamentals_report)
          /\ ~IsNone(Report.action)
          /\ ~IsNone(h.on[1]) =>
                /\ KeepsPopulated(Get(h.on[1]), Report)
                /\ (~IsNone(Get(h.on[1]).action) /\ ~IsNone(Get(h.on[1]).appendix))
                      => fundamentals_report = h.on[1]
    /\ h.calls = 2 => fundamentals_report = h.on[2]

\* a Report that came without action and appendix was patched once, with the
\* configured min_confidence, and the second call changed nothing
C14_Witness ==
    /\ h.calls = 2
    /\ ~IsNone(h.on[1])
    /\ IsNone(Get(h.on[1]).action)
    /\ IsNone(Get(h.on[1]).appendix)
    /\ Report.action = Some("HOLD")
    /\ Report.confidence = 80
    /\ HasBlock(Report.appendix, "LLM Debate Summary")
    /\ fundamentals_report = h.on[2]

\* the mode string get_fundamentals_mode finds in a configuration
RawMode(cfg) ==
    IF ~IsNone(cfg.f_mode) THEN Get(cfg.f_mode)
    ELSE IF ~IsNone(cfg.mode) THEN Get(cfg.mode)
    ELSE "deterministic"

\* the configuration names no known mode, or an LLM or AGENTIC mode without
\* a supported LLM provider
BadConfiguration(cfg) ==
    \/ RawMode(cfg) \notin {"deterministic", "det", "llm", " LLM ", "agentic", "llm_agentic"}
    \/ /\ RawMode(cfg) \in {"llm", " LLM ", "agentic", "llm_agentic"}
       /\ cfg.llm_provider \notin {"ollama", "mock"}

\* C15: when the mode string is unknown, or the mode is LLM or AGENTIC and
\* the LLM provider is missing, 'none' or unsupported, propagate raises a
\* configuration error and the run never leaves the start: no snapshot is
\* fetched, no node runs, the trace stays empty and no backend is called.
C15_BadConfigurationFailsFast ==
    BadConfiguration(config) =>
        /\ pc \in {"START", "ValueError"}
        /\ fundamentals_snapshot = None
        /\ det_fundamentals = None
        /\ fundamentals_report = None
        /\ llm_client = None
        /\ trace_nodes = << >>
        /\ llm_calls = NoCalls

\* propagate raised on an LLM mode with an unsupported provider name
C15_Witness ==
    /\ pc = "ValueError"
    /\ RawMode(config) = " LLM "
    /\ config.llm_provider = "bedrock"
    /\ trace_nodes = << >>
    /\ fundamentals_snapshot = None

\* C16: for every Snapshot, whichever fundamentals are present and however
\* many missing fields and warnings it lists, the Deterministic Evaluator
\* does not raise and returns a View with a confidence in [0.3, 0.8].
C16_DetConfidenceInRange ==
    /\ pc \notin Errors
    /\ pc # "fundamental" =>
          /\ fundamentals_snapshot = Some(h.snap)
          /\ ValidView(det_fundamentals)
          /\ Get(det_fundamentals).confidence \in 30 .. 80
          /\ Len(Get(det_fundamentals).key_points) <= 4
          /\ Len(Get(det_fundamentals).risks) <= 2

\* no fundamental at all, six missing fields and three warnings: the floor holds
C16_Witness ==
    /\ pc = "det"
    /\ h.snap.growth = None /\ h.snap.opm = None /\ h.snap.d2e = None
    /\ h.snap.missing = 6
    /\ Len(h.snap.warnings) = 3
    /\ Get(det_fundamentals).confidence = 30
    /\ Get(det_fundamentals).stance = "NEUTRAL"

\* the trace holds this node
Visited(node) == \E i \in 1 .. Len(trace_nodes) : trace_nodes[i] = node

\* how often the trace holds this node
Visits(node) == Cardinality({ i \in 1 .. Len(trace_nodes) : trace_nodes[i] = node })

DebateNodes == {"fanout_llm", "bull", "bear", "debate"}

\* C17: in LLM and AGENTIC modes the Divergence node always runs; after it
\* the run goes to the Debate fanout when the debate gate fires and straight
\* to Resolve when it does not, so that in a run whose gate is off the
\* fanout, bull, bear and debate nodes are never visited.
C17_GateOffSkipsDebateNodes ==
    /\ (Mode \in {"llm", "agentic"} /\ Visited("fund_resolve")) => Visited("divergence")
    /\ (Visited("divergence") /\ GateCondition /\ pc \notin Errors /\ pc # "fanout_llm")
          => Visited("fanout_llm")
    /\ ~GateCondition =>
          /\ pc \notin {"fanout_llm", "parallel", "debate"}
          /\ \A n \in DebateNodes : ~Visited(n)

\* C18: after Fundamental the run goes to the agentic node in AGENTIC mode,
\* to the llm node in LLM mode and to the det node otherwise; a run in
\* DETERMINISTIC mode visits exactly fundamental, det, fund_resolve, proposal
\* in this order, never visits divergence, fanout, bull, bear or debate,
\* calls no backend and ends without Divergence Report or Debate Artifacts.
C18_RoutingByMode ==
    /\ Len(trace_nodes) >= 1 => trace_nodes[1] = "fundamental"
    /\ Len(trace_nodes) = 1 =>
          pc = (IF Mode = "agentic" THEN "agentic" ELSE IF Mode = "llm" THEN "llm" ELSE "det")
    /\ Mode = "deterministic" =>
          /\ \A n \in DebateNodes \cup {"divergence", "llm", "agentic"} : ~Visited(n)
          /\ llm_calls = NoCalls
          /\ divergence_report = None
          /\ AllAbsent
          /\ pc \notin Errors
          /\ pc = "END" =>
                trace_nodes = << "fundamental", "det", "fund_resolve", "proposal" >>

\* a deterministic run ended on its four nodes with a Report
C18_Witness ==
    /\ pc = "END"
    /\ Mode = "deterministic"
    /\ config.f_force_debate
    /\ trace_nodes = << "fundamental", "det", "fund_resolve", "proposal" >>
    /\ ReportComplete
    /\ Get(final_fundamentals).source = "deterministic"

\* the arguments a side of the debate can end with, given the gate
SideOutcomes(fallback) ==
    IF _debate_enabled(config, divergence_report)
    THEN { Some(a) : a \in ArgumentAnswers } \cup { Some(fallback) }
    ELSE { None }

\* what holds of the fan-out and the join in every state
JoinBarrier ==
    /\ pc = "debate" => todo = {}
    /\ pc # "parallel" => todo = {}
    /\ pc = "parallel" =>
          /\ ~Visited("bull") /\ ~Visited("bear") /\ ~Visited("debate")
          /\ IsNone(debate_summary)
          /\ "bull" \in todo => IsNone(bull_case)
          /\ "bear" \in todo => IsNone(bear_case)
    /\ (pc = "debate" \/ Visited("debate")) =>
          /\ Visits("bull") = 1 /\ Visits("bear") = 1
          /\ bull_case \in SideOutcomes(BullFallback)
          /\ bear_case \in SideOutcomes(BearFallback)
    /\ Visits("debate") <= 1
    /\ llm_calls.bull <= 1 /\ llm_calls.bear <= 1 /\ llm_calls.debate <= 1
    /\ (Mode \in {"llm", "agentic"} /\ Visited("fund_resolve")) =>
          /\ Visits("debate") = 1
          /\ \E i, j \in 1 .. Len(trace_nodes) :
                i < j /\ trace_nodes[i] = "debate" /\ trace_nodes[j] = "fund_resolve"
    /\ (Visited("debate") /\ _debate_enabled(config, divergence_report)) =>
          /\ ~IsNone(debate_summary)
          /\ llm_calls.debate = 1
          /\ debate_summary # Some(DebateSkipped(bull_case, bear_case))

\* a side that finishes, first or second, writes its own case only, with an
\* outcome that does not depend on the other side, and the join records the
\* two sides in the same order whichever came last
SidesIndependent ==
    /\ bull_node => /\ bear_case' = bear_case
                    /\ pc' \notin Errors => bull_case' \in SideOutcomes(BullFallback)
    /\ bear_node => /\ bull_case' = bull_case
                    /\ pc' \notin Errors => bear_case' \in SideOutcomes(BearFallback)
    /\ (pc = "parallel" /\ pc' = "debate") =>
          /\ todo' = {}
          /\ trace_nodes' = trace_nodes \o << "bear", "bull" >>

\* C19: under every interleaving of bull and bear the debate node never
\* starts before both have completed, runs once per run, Resolve runs only
\* after it, and bull_case, bear_case and debate_summary do not depend on
\* which of bull and bear finished first.
C19_JoinBeforeDebate == []JoinBarrier /\ [][SidesIndependent]_vars

\* bear finished first and failed; bull answered; the debate ran on both
C19_Witness ==
    /\ pc = "fund_resolve"
    /\ Visits("debate") = 1
    /\ bear_case = Some(BearFallback)
    /\ bull_case \in { Some(a) : a \in ArgumentAnswers }
    /\ llm_calls.bull = 1 /\ llm_calls.bear = 1 /\ llm_calls.debate = 1
    /\ Get(debate_summary).bear = BearFallback

GroundingError == "Your PROPOSE must cite at least two snapshot numbers in bullets"

\* the last backend answer was a PROPOSE whose bullets hold fewer than two digits
UngroundedPropose ==
    /\ h.called
    /\ Get(h.answer).kind = "resp"
    /\ Get(Get(h.answer).resp).action = "PROPOSE"
    /\ DigitCount(Get(Get(h.answer).resp).bullets) < 2

\* C20: agentic_node returns a View built from a PROPOSE only if that response's
\* bullets hold at least two digits; an ungrounded PROPOSE is never accepted: it
\* records the retry error and uses up its turn, after which the loop goes on,
\* or, with no turn left, the node returns the terminal ABSTAIN.
C20_UngroundedProposeRetried ==
    /\ (~IsNone(agentic_result) /\ Get(agentic_result).action = "PROPOSE") =>
          /\ DigitCount(Get(agentic_result).bullets) >= 2
          /\ agentic_fundamentals = Some(ViewOfResponse(Get(agentic_result)))
          /\ h.called /\ Get(h.answer).resp = agentic_result
    /\ UngroundedPropose =>
          /\ llm_calls.agentic = h.before.turn + 1
          /\ IF h.before.turn + 1 < MAX_TURNS THEN
                 /\ pc = "agentic"
                 /\ loop.turn = h.before.turn + 1
                 /\ loop.last_error = Some(GroundingError)
                 /\ IsNone(agentic_result)
                 /\ IsNone(agentic_fundamentals)
             ELSE
                 /\ pc = "divergence"
                 /\ Get(agentic_result).action = "ABSTAIN"
                 /\ Get(agentic_result).risks[2] = GroundingError
                 /\ Get(agentic_fundamentals).stance = "NEUTRAL"
                 /\ Get(agentic_fundamentals).confidence = 0
                 /\ Get(agentic_fundamentals).key_points = << >>

C20_Witness ==
    /\ UngroundedPropose
    /\ h.before.turn = MAX_TURNS - 1
    /\ pc = "divergence"
    /\ Get(agentic_result).action = "ABSTAIN"

\* a backend answer the loop returns on: an ABSTAIN, or a PROPOSE citing two digits
Accepting(answer) ==
    /\ answer.kind = "resp"
    /\ \/ Get(answer.resp).action = "ABSTAIN"
       \/ /\ Get(answer.resp).action = "PROPOSE"
          /\ DigitCount(Get(answer.resp).bullets) >= 2

AsksTool(answer) ==
    /\ answer.kind = "resp"
    /\ Get(answer.resp).action = "CALL_TOOL"
    /\ ~IsNone(Get(answer.resp).tool_call)

\* the tool results a sequence of answers has dispatched, n being those already made
RECURSIVE Dispatched(_, _)
Dispatched(answers, n) ==
    IF answers = << >> THEN << >>
    ELSE IF AsksTool(Head(answers)) /\ n < 2 THEN
        << dispatch_agentic_tool(Get(Get(Head(answers).resp).tool_call)) >>
            \o Dispatched(Tail(answers), n + 1)
    ELSE Dispatched(Tail(answers), n)

\* the error the last of the answers left behind, if any
ErrorLeft(answers) ==
    LET last == answers[Len(answers)]
        toolsBefore == Len(Dispatched(SubSeq(answers, 1, Len(answers) - 1), 0))
    IN  IF last.kind = "raise" THEN << "LLM error" >>
        ELSE IF last.kind = "no_action" THEN
            << "Your JSON is missing required field 'action'." >>
        ELSE IF Get(last.resp).action = "PROPOSE" THEN << GroundingError >>
        ELSE IF IsNone(Get(last.resp).tool_call) THEN << "CALL_TOOL requires tool_call" >>
        ELSE IF toolsBefore >= 2 THEN << "Tool call limit reached" >>
        ELSE << >>

TurnsExhausted ==
    /\ h.called
    /\ Len(h.answers) = 3
    /\ \A i \in 1..3 : ~Accepting(h.answers[i])

\* C21: when all 3 turns pass without an accepted PROPOSE or ABSTAIN, agentic_node
\* returns the terminal ABSTAIN View (NEUTRAL, INCOME, confidence 0.0, no key
\* points) whose risks are non-empty and include the last recorded error when
\* there is one, and the tool history holds exactly the dispatched tool results
\* in order.
C21_ExhaustedTurnsAbstain ==
    TurnsExhausted =>
        /\ pc = "divergence"
        /\ Get(agentic_result).action = "ABSTAIN"
        /\ Get(agentic_fundamentals).stance = "NEUTRAL"
        /\ Get(agentic_fundamentals).covered_call_bias = "INCOME"
        /\ Get(agentic_fundamentals).confidence = 0
        /\ Get(agentic_fundamentals).key_points = << >>
        /\ Get(agentic_fundamentals).risks =
              << "LLM output failed validation or exceeded limits." >>
                  \o ErrorLeft(h.answers)
        /\ llm_fundamentals = agentic_fundamentals
        /\ agentic_tool_history = Dispatched(h.answers, 0)

\* two tools dispatched, the third refused, and the refusal listed in the risks
C21_Witness ==
    /\ TurnsExhausted
    /\ Len(agentic_tool_history) = 2
    /\ Len(Get(agentic_fundamentals).risks) = 2
    /\ Get(agentic_fundamentals).risks[2] = "Tool call limit reached"

\* C22: the deterministic View's confidence is max(0.3, 0.8 - 0.1 * n), n being
\* the number of missing snapshot fields in the quality record.
C22_DetConfidenceFormula ==
    pc # "fundamental" =>
        Get(det_fundamentals).confidence = Max(30, 80 - 10 * h.snap.missing)

\* bullish and bearish signals of the snapshot handed to fundamental_node
BullishSignals ==
    (IF ~IsNone(h.snap.growth) /\ Get(h.snap.growth) >= StrongGrowthPct THEN 1 ELSE 0)
    + (IF ~IsNone(h.snap.opm) /\ Get(h.snap.opm) >= StrongOperMarginPct THEN 1 ELSE 0)

BearishSignals ==
    (IF ~IsNone(h.snap.growth) /\ Get(h.snap.growth) < 0 THEN 1 ELSE 0)
    + (IF ~IsNone(h.snap.opm) /\ Get(h.snap.opm) < MinOperMarginPct THEN 1 ELSE 0)
    + (IF ~IsNone(h.snap.d2e) /\ Get(h.snap.d2e) > MaxDebtToEquity THEN 1 ELSE 0)

MajorityStance ==
    IF BullishSignals >= 2 /\ BullishSignals > BearishSignals THEN "BULLISH"
    ELSE IF BearishSignals >= 2 /\ BearishSignals > BullishSignals THEN "BEARISH"
    ELSE "NEUTRAL"

\* C23: the deterministic stance is the two-signal majority of the bullish and
\* bearish signals, the same rule for both sides, NEUTRAL otherwise, and the
\* bias follows the stance (BULLISH to UPSIDE, BEARISH to CAUTION, NEUTRAL to INCOME).
C23_TwoSignalMajority ==
    pc # "fundamental" =>
        /\ Get(det_fundamentals).stance = MajorityStance
        /\ Get(det_fundamentals).covered_call_bias =
              (CASE MajorityStance = "BULLISH" -> "UPSIDE"
                 [] MajorityStance = "BEARISH" -> "CAUTION"
                 [] OTHER -> "INCOME")

\* the comparison View of divergence_node: the agentic View if present, else the llm View
ComparisonView == IF ~IsNone(agentic_fundamentals) THEN agentic_fundamentals
                  ELSE llm_fundamentals

\* C24: divergence_node never fails and never blocks the run: when the
\* deterministic View or the comparison View (agentic if present, else llm) is
\* absent the Divergence Report has score 0, severity ALIGNED and a non-empty
\* note about the missing input; otherwise it is compute_divergence of exactly
\* those two Views.
C24_DivergenceNodeNonBlocking ==
    /\ pc \notin Errors
    /\ pc # "divergence" =>
          /\ pc = "fanout_llm"
          /\ ~IsNone(divergence_report)
          /\ IF IsNone(det_fundamentals) \/ IsNone(ComparisonView) THEN
                 /\ Get(divergence_report).score = 0
                 /\ Get(divergence_report).severity = "ALIGNED"
                 /\ ~IsNone(Get(divergence_report).notes)
                 /\ Get(Get(divergence_report).notes) # ""
             ELSE
                 /\ Get(divergence_report).stance =
                       << Get(det_fundamentals).stance, Get(ComparisonView).stance >>
                 /\ Get(divergence_report).confidence =
                       << Get(det_fundamentals).confidence, Get(ComparisonView).confidence >>
                 /\ divergence_report =
                       Some(compute_divergence(Get(det_fundamentals), Get(ComparisonView)))

\* the deterministic View is missing while both comparison Views are there
C24_Witness ==
    /\ pc = "fanout_llm"
    /\ IsNone(det_fundamentals)
    /\ ~IsNone(llm_fundamentals) /\ ~IsNone(agentic_fundamentals)
    /\ Get(divergence_report).severity = "ALIGNED"
    /\ ~IsNone(Get(divergence_report).notes)

GateFired ==
    \/ config.f_force_debate
    \/ Get(divergence_report).severity \in {"MAJOR", "CRITICAL", "EXTREME"}

\* the case a side is left with by the backend answer a, given its fallback stance and bias
SideResult(a, case, bias) ==
    IF Get(a).kind = "payload" THEN case = Get(a).payload
    ELSE /\ Get(case).stance = "NEUTRAL"
         /\ Get(case).covered_call_bias = bias
         /\ Get(case).confidence = 30
         /\ Get(case).risks # << >>
         /\ \A i \in 1 .. Len(Get(case).risks) : Get(case).risks[i] # ""

\* C25: when the debate gate fires, bull_node and bear_node each make exactly one
\* backend call; a failed call leaves that side with its own fallback View (bull
\* NEUTRAL/INCOME, bear NEUTRAL/CAUTION, confidence 0.30, an explanatory risk),
\* raises nothing and leaves the other side's result as it is; a failed synthesis
\* call gives a Debate summary that states the failure and carries the existing
\* bull and bear Views unchanged.
C25_DebateFailuresAbsorbed ==
    GateFired =>
        /\ pc \notin Errors
        /\ IF "bull" \in todo
           THEN IsNone(bull_case) /\ llm_calls.bull = 0 /\ IsNone(h.bull)
           ELSE llm_calls.bull = 1 /\ ~IsNone(h.bull) /\ SideResult(h.bull, bull_case, "INCOME")
        /\ IF "bear" \in todo
           THEN IsNone(bear_case) /\ llm_calls.bear = 0 /\ IsNone(h.bear)
           ELSE llm_calls.bear = 1 /\ ~IsNone(h.bear) /\ SideResult(h.bear, bear_case, "CAUTION")
        /\ pc = "fund_resolve" =>
              /\ llm_calls.debate = 1
              /\ ~IsNone(h.debate)
              /\ IF Get(h.debate).kind = "payload"
                 THEN debate_summary = Get(h.debate).payload
                 ELSE /\ Get(debate_summary).bull = Get(bull_case)
                      /\ Get(debate_summary).bear = Get(bear_case)
                      /\ Get(debate_summary).synthesis =
                            << "Debate JSON parse failed; fallback used." >>

\* bull failed, bear answered, and the synthesis call failed as well
C25_Witness ==
    /\ GateFired
    /\ pc = "fund_resolve"
    /\ Get(h.bull).kind = "failure"
    /\ Get(h.bear).kind = "payload"
    /\ Get(h.debate).kind = "failure"
    /\ Get(debate_summary).bull.confidence = 30
    /\ Get(debate_summary).bear = Get(Get(h.bear).payload)

\* a call of the resolver node, in a run or beside it
ResolverCalled == fundamentals_resolver_node \/ CallResolver

\* the decision is written once and then stays
DecisionKept ==
    /\ ~IsNone(final_fundamentals) => final_fundamentals' = final_fundamentals
    /\ (ResolverCalled /\ ~IsNone(final_fundamentals)) =>
          /\ pc' \notin Errors
          /\ UNCHANGED << final_fundamentals, fundamentals_report, det_fundamentals,
                          llm_fundamentals, agentic_fundamentals, divergence_report,
                          bull_case, bear_case, debate_summary, llm_calls >>
    /\ final_fundamentals' # final_fundamentals =>
          ResolverCalled /\ IsNone(final_fundamentals)

OneDecision ==
    /\ pc = "END" => ~IsNone(final_fundamentals)
    /\ (pc = "END" /\ h = None) => Visits("fund_resolve") = 1
    /\ (h # None /\ h.calls >= 1 /\ ~IsNone(h.before)) => final_fundamentals = h.before

\* C26: fundamentals_resolver_node is a no-op once a Final Decision exists: called
\* on a state that has final_fundamentals it changes nothing of the decision, so
\* every completed run has exactly one Final Decision and it is never replaced
\* after being set.
C26_ResolverIdempotent == []OneDecision /\ [][DecisionKept]_vars

\* the node was called twice on a state that had a decision; the decision stayed
C26_Witness ==
    /\ h # None
    /\ h.calls = 2
    /\ ~IsNone(h.before)
    /\ final_fundamentals = h.before
    /\ final_fundamentals # resolve_final_fundamentals(
                                Mode, det_fundamentals, llm_fundamentals,
                                agentic_fundamentals, divergence_report,
                                ResolverForceDebate(config))

\* position of a node in the trace, 0 when it is not there
TracePos(node) ==
    IF Visited(node) THEN CHOOSE i \in 1 .. Len(trace_nodes) : trace_nodes[i] = node
    ELSE 0

TracedNodes ==
    {"fundamental", "det", "llm", "agentic", "divergence", "fanout_llm", "debate",
     "fund_resolve", "proposal"}

\* what one step does to the trace
TraceAppended ==
    /\ Len(trace_nodes') >= Len(trace_nodes)
    /\ SubSeq(trace_nodes', 1, Len(trace_nodes)) = trace_nodes
    /\ trace_nodes' # trace_nodes =>
          IF pc = "parallel" THEN trace_nodes' = trace_nodes \o << "bear", "bull" >>
          ELSE pc \in TracedNodes /\ trace_nodes' = trace_nodes \o << pc >>
    /\ (pc \in TracedNodes /\ pc' # pc /\ pc' \notin Errors) => trace_nodes' # trace_nodes

TraceShape ==
    /\ \A n \in TracedNodes \cup {"bull", "bear"} : Visits(n) <= 1
    /\ pc = "END" =>
          /\ Len(trace_nodes) >= 3
          /\ trace_nodes[1] = "fundamental"
          /\ trace_nodes[Len(trace_nodes) - 1] = "fund_resolve"
          /\ trace_nodes[Len(trace_nodes)] = "proposal"
          /\ \A n \in DebateNodes :
                Visited(n) => Visited("divergence") /\ TracePos("divergence") < TracePos(n)
          /\ Visited("debate") =>
                /\ Visited("bull") /\ Visited("bear")
                /\ TracePos("bull") < TracePos("debate")
                /\ TracePos("bear") < TracePos("debate")

\* C27: the trace is append-only: each node that executes appends its own
\* identifier once and no step removes or reorders earlier entries; at End the
\* trace starts with fundamental, ends with fund_resolve then proposal, has
\* divergence before any of fanout_llm, bull, bear, debate, and debate after
\* both bull and bear.
C27_TraceAppendOnly == []TraceShape /\ [][TraceAppended]_vars

C27_Witness ==
    /\ pc = "END"
    /\ Mode = "agentic"
    /\ trace_nodes = << "fundamental", "agentic", "divergence", "fanout_llm", "bear", "bull",
                        "debate", "fund_resolve", "proposal" >>

\* the run's agentic node ended with the terminal ABSTAIN
TerminalAbstain ==
    /\ ~IsNone(agentic_result)
    /\ Get(agentic_result).action = "ABSTAIN"
    /\ Get(agentic_result).risks # << >>
    /\ Get(agentic_result).risks[1] = "LLM output failed validation or exceeded limits."

\* C28: in AGENTIC mode every completed run has a Final Decision with source
\* agentic: the agentic node sets the agentic View and the llm View to the same
\* View, so the deterministic View is never selected, also when the loop ran out
\* of turns and the decision is the terminal ABSTAIN View (NEUTRAL, INCOME,
\* confidence 0.0); the Report's action is then HOLD for every min_confidence
\* above 0.
C28_AgenticAlwaysWins ==
    Mode = "agentic" =>
        /\ Visited("agentic") =>
              /\ ~IsNone(agentic_fundamentals)
              /\ llm_fundamentals = agentic_fundamentals
        /\ pc = "END" =>
              /\ ~IsNone(final_fundamentals)
              /\ Get(final_fundamentals).source = "agentic"
              /\ Get(final_fundamentals).stance = Get(agentic_fundamentals).stance
              /\ Get(final_fundamentals).covered_call_bias =
                    Get(agentic_fundamentals).covered_call_bias
              /\ Get(final_fundamentals).confidence = Get(agentic_fundamentals).confidence
              /\ TerminalAbstain =>
                    /\ Get(final_fundamentals).stance = "NEUTRAL"
                    /\ Get(final_fundamentals).covered_call_bias = "INCOME"
                    /\ Get(final_fundamentals).confidence = 0
                    /\ (IF IsNone(config.min_confidence) THEN 55
                        ELSE Get(config.min_confidence)) > 0
                          => Report.action = Some("HOLD")

\* the loop ran out of turns beside a bullish deterministic View
C28_Witness ==
    /\ Mode = "agentic"
    /\ pc = "END"
    /\ TerminalAbstain
    /\ Get(det_fundamentals).stance = "BULLISH"
    /\ Get(det_fundamentals).confidence = 80
    /\ Get(final_fundamentals).source = "agentic"
    /\ Get(final_fundamentals).confidence = 0
    /\ config.min_confidence = Some(90)
    /\ Report.action = Some("HOLD")

\* the backend call of the run's llm node failed
LlmCallFailed ==
    /\ h.returned
    /\ ~IsNone(h.answer)
    /\ Get(h.answer).kind = "failure"

\* C29: in LLM mode, whenever the llm node's backend call fails, the Divergence
\* Report of the run has severity ALIGNED (score at most 0.10) and the Final
\* Decision has source deterministic with the deterministic View's own,
\* uncapped confidence, for every deterministic View and every force_debate
\* value; the capped confidence 0.60 reaches neither the Final Decision nor the
\* Report.
C29_LlmFailureResolvesToDet ==
    LlmCallFailed =>
        /\ Mode = "llm"
        /\ ~IsNone(divergence_report) =>
              /\ Get(divergence_report).severity = "ALIGNED"
              /\ Get(divergence_report).score <= 100
        /\ ~IsNone(final_fundamentals) =>
              /\ Get(final_fundamentals).source = "deterministic"
              /\ Get(final_fundamentals).stance = Get(det_fundamentals).stance
              /\ Get(final_fundamentals).covered_call_bias =
                    Get(det_fundamentals).covered_call_bias
              /\ Get(final_fundamentals).confidence = Get(det_fundamentals).confidence
        /\ pc = "END" =>
              /\ ~IsNone(divergence_report)
              /\ ~IsNone(final_fundamentals)
              /\ Report.confidence = Get(det_fundamentals).confidence

\* the call failed beside a deterministic confidence of 0.80 with force_debate set
C29_Witness ==
    /\ LlmCallFailed
    /\ pc = "END"
    /\ config.f_force_debate
    /\ Get(det_fundamentals).confidence = 80
    /\ Get(llm_fundamentals).confidence = 60
    /\ Get(final_fundamentals).confidence = 80
    /\ Report.confidence = 80
    /\ ~IsNone(debate_summary)

\* C30: at End of every completed run, in every mode, the Report's stance, bias
\* and confidence equal those of the run's Final Decision: in deterministic mode
\* both come from the deterministic View, in LLM and AGENTIC modes the Report is
\* created from the Final Decision.
C30_ReportMatchesDecision ==
    pc = "END" =>
        /\ ~IsNone(fundamentals_report)
        /\ ~IsNone(final_fundamentals)
        /\ Report.stance = Get(final_fundamentals).stance
        /\ Report.covered_call_bias = Get(final_fundamentals).covered_call_bias
        /\ Report.confidence = Get(final_fundamentals).confidence
        /\ Mode = "deterministic" =>
              /\ Get(final_fundamentals).source = "deterministic"
              /\ Report.stance = Get(det_fundamentals).stance
              /\ Report.covered_call_bias = Get(det_fundamentals).covered_call_bias
              /\ Report.confidence = Get(det_fundamentals).confidence
        /\ Mode \in {"llm", "agentic"} =>
              /\ Report.action =
                    Some(decide_trade_action(Get(final_fundamentals).stance,
                                             Get(final_fundamentals).covered_call_bias,
                                             Get(final_fundamentals).confidence,
                                             _min_conf(config)).action)

\* a run in LLM mode whose decision took the llm View against the deterministic one
C30_Witness ==
    /\ pc = "END"
    /\ Mode = "llm"
    /\ Get(final_fundamentals).source = "llm"
    /\ Get(final_fundamentals).stance # Get(det_fundamentals).stance
    /\ Get(final_fundamentals).confidence = 92
    /\ Report.stance = Get(llm_fundamentals).stance
    /\ Report.confidence = 92
=============================================================================
